---- MODULE Spec2Model ----
(***************************************************************************)
(* The publishing pipeline of the LLM marketplace, in its two              *)
(* implementations:                                                        *)
(*   - PublishingService.publishService  (impl = "service")                *)
(*   - PublishingWorkflow.execute        (impl = "workflow")               *)
(* Under Spec one behaviour is one run of publish for one service          *)
(* specification.  SpecCreate and SpecStatus look at the services table:   *)
(* two concurrent create / publish calls, and the status of one service    *)
(* under any sequence of status commands.  SpecTests is one run of         *)
(* TestOrchestrator.runTestSuite, SpecPolicy one call of                   *)
(* PolicyEngineClient.validateService, and SpecRerun follows execute       *)
(* invoked again for the same service ids.  SpecRetry is one call of       *)
(* retryActivity, SpecUpdate the services rows under updateService,        *)
(* SpecCache the service cache under a mutation and concurrent reads, and  *)
(* SpecIter one run of an SDK page iterator.                               *)
(* Every external collaborator (validators, policy engine, registry,       *)
(* database, test activities, governance, analytics, cache) is an abstract *)
(* capability: a call returns one of the results of its type or raises.    *)
(***************************************************************************)
EXTENDS Integers, Sequences, FiniteSets, TLC

\* ------------------------------------------------------------------ bounds

\* How many collaborator calls may raise an error within one run.
MaxFaults == 5

\* longest data-residency list handed to the policy engine client
MaxCountries == 2

\* invocations of execute followed for the same service ids
MaxRuns == 2

\* largest attempt ceiling retryActivity is called with
MaxAttempts == 5

\* pages a server hands out before it reports hasMore false
MaxPages == 3

\* ------------------------------------------------------------ value spaces

\* context.registryId before registration, and the identifiers the registry
\* may assign
NoId == "undefined"
RegistryIds == {"registry-id-1", "registry-id-2"}

Absent == "absent"
Levels == {"public", "confidential", "restricted", Absent}
SupportLevels == {"standard", "enterprise", Absent}
Specs == [level : Levels, supportLevel : SupportLevels, openApiSpec : BOOLEAN]

PENDING_APPROVAL == "pending_approval"
ACTIVE == "active"
DEPRECATED == "deprecated"
SUSPENDED == "suspended"
RETIRED == "retired"
FAILED_VALIDATION == "failed_validation"
ServiceStatus ==
    {PENDING_APPROVAL, ACTIVE, DEPRECATED, SUSPENDED, RETIRED, FAILED_VALIDATION}

NoRecord == "no_record"
NoStatus == "no_status"
NoError == [act |-> "none", attempt |-> 0]
NoService == [registryId |-> NoId, status |-> NoStatus]

\* the services table and its callers
Procs == {"p1", "p2"}
Keys == {"gpt-x@1.0.0", "gpt-y@1.0.0"}
Ops == {"create", "publish"}
Schemas == {"no_constraint", "unique_name_version"}
Roles == {"admin", "provider", "other"}
NoRow == "none"
NoHist == [op |-> "none", row |-> NoRow, role |-> "none", from |-> NoRecord,
           to |-> NoStatus, outcome |-> "none"]

Impls == {"service", "workflow"}
Checks == {"tests", "security", "benchmarks"}
Activities ==
    {"validate", "openapi", "policy", "register", "save",
     "tests", "security", "benchmarks",
     "createApproval", "waitApproval",
     "markFailed", "markSuspended", "activate",
     "cache", "analytics", "notify", "rollback"}

VARIABLES
    impl,       \* which implementation of publish runs
    spec,       \* serviceSpec, the input of the run
    pc,         \* position of the run
    attempt,    \* retryActivity's loop counter of the activity at pc
    ctx,        \* PublishingWorkflowContext / the locals of publishService
    service,    \* the Service object built after registration
    db,         \* status of the services row of serviceId, or NoRecord
    checks,     \* the three parallel retryActivity sub-tasks of the workflow
    calls,      \* how often each collaborator operation has been invoked
    rollbacks,  \* the registryId arguments of the rollbackPublication calls
    err,        \* the error being handled by the catch block
    faults,     \* how many collaborator calls have raised so far
    result,     \* what the run gave its caller
    schema,     \* whether the services table rejects a second (name, version)
    procs,      \* the create / publish calls in flight on the services table
    rows,       \* the services table: status of each caller's row, or NoRecord
    hist,       \* the last status command issued and how it ended
    dep,        \* the row whose DeprecationWorkflow is in its grace period
    ts,         \* one run of TestOrchestrator.runTestSuite
    pe,         \* one call of PolicyEngineClient.validateService
    rr,         \* the invocations of execute, one after the other, per service id
    ra,         \* one call of PublishingWorkflow.retryActivity
    up,         \* the services rows under PublishingService.updateService
    ch,         \* the service cache and the database row behind it
    it          \* one run of an SDK page iterator

pipelineVars == <<impl, spec, pc, attempt, ctx, service, db, checks, calls,
                  rollbacks, err, faults, result>>
repoVars == <<schema, procs, rows, hist, dep>>
unitVars == <<ra, up, ch, it>>
componentVars == <<ts, pe, rr, unitVars>>
vars == <<pipelineVars, repoVars, componentVars>>

\* ------------------------------------------------------------ pure helpers

\* retryActivity's attempt ceiling, as passed at each call site of execute
MaxRetries_Once(act) == 1
MaxRetries(act) == IF act \in {"register", "save"} THEN 5 ELSE 3

\* requiresApproval with the 'restricted' comparison left out
requiresApproval_NoRestricted(s) ==
    \/ s.level = "confidential"
    \/ s.supportLevel = "enterprise"

\* PublishingWorkflow.requiresApproval (optional chaining: an absent
\* compliance or sla object compares unequal to every literal)
requiresApproval(s) ==
    \/ s.level = "confidential"
    \/ s.level = "restricted"
    \/ s.supportLevel = "enterprise"

\* requiresManualApproval with the support-level comparison inverted
requiresManualApproval_InvertedSupport(s) ==
    IF s.level = "confidential" \/ s.level = "restricted"
    THEN TRUE
    ELSE IF s.supportLevel # "enterprise"
         THEN TRUE
         ELSE FALSE

\* PublishingService.requiresManualApproval
requiresManualApproval(s) ==
    IF s.level = "confidential" \/ s.level = "restricted"
    THEN TRUE
    ELSE IF s.supportLevel = "enterprise"
         THEN TRUE
         ELSE FALSE

\* execute without the early return after an invalid validation result
WfContinueAfterValidation_NoReturn(res) == TRUE

\* if (!context.validationResult.isValid) return context;
WfContinueAfterValidation(res) == res = "valid"

\* execute without the early return after an invalid interface document
WfContinueAfterOpenApi_NoReturn(res) == TRUE

\* if (!openApiResult.isValid) { ...; return context; }
WfContinueAfterOpenApi(res) == res = "valid"

\* execute without the early return after a non-compliant policy result
WfContinueAfterPolicy_NoReturn(res) == TRUE

\* if (!context.policyResult.compliant) return context;
WfContinueAfterPolicy(res) == res = "compliant"

\* if (!testResult.passed || !securityResult.passed || !benchmarkResult.passed)
WfTestsFailed(t, s, b) == (t # "passed") \/ (s # "passed") \/ (b # "passed")

\* if (!approved): updateServiceStatus(serviceId, ServiceStatus.SUSPENDED)
WfStatusAfterRejection_Active == ACTIVE
WfStatusAfterRejection == SUSPENDED

\* execute ignoring the approval decision
WfContinueAfterApproval_Ignored(approved) == TRUE

\* context.approvalStatus = approved ? 'approved' : 'rejected'; if (!approved) ...
WfContinueAfterApproval(approved) == approved

\* if (context.registryId) rollbackPublication(...)
WfNeedsRollback_Always(c) == TRUE
WfNeedsRollback(c) == c.registryId # NoId

\* if (!validationResult.isValid) return {status: FAILED_VALIDATION}
SvcContinueAfterValidation(res) == res = "valid"

\* if (!openApiResult.isValid) return {status: FAILED_VALIDATION}
SvcContinueAfterOpenApi(res) == res = "valid"

\* if (!policyResult.compliant) return {status: SUSPENDED}
SvcContinueAfterPolicy(res) == res = "compliant"

\* publishService reporting a policy rejection as a validation failure
SvcPolicyViolationStatus_AsValidation == FAILED_VALIDATION

\* status returned when the policy engine reports violations
SvcPolicyViolationStatus == SUSPENDED

\* status returned when a validator reports errors
SvcValidationFailureStatus == FAILED_VALIDATION

Inc(act) == [calls EXCEPT ![act] = @ + 1]
Inc2(a, b) == [calls EXCEPT ![a] = @ + 1, ![b] = @ + 1]
\* Bookkeeping of the fault budget for a step of the sequential flow: the
\* awaited call raised iff the step enters the catch block or starts another
\* retryActivity attempt.
CountFault ==
    /\ faults' = IF pc' = "catch" \/ attempt' = attempt + 1
                 THEN faults + 1 ELSE faults
    /\ faults' <= MaxFaults
\* the error an activity raises on its n-th invocation
ActivityError(act, n) == [act |-> act, attempt |-> n]
\* retryActivity, after the loop: throw new Error(`Activity failed after
\* ${maxRetries} retries: ${lastError?.message}`), lastError being the error
\* caught on attempt n, the last one
RetryError_FirstAttempt(act, n) == ActivityError(act, 1)
RetryError(act, n) == ActivityError(act, n)
\* where execute goes once retryActivity has returned the registry id: on
\* to Steps 5 and 6, the registration is not invoked again
WfAfterRegister_Again == "register"
WfAfterRegister == "save"
\* the Service object built from the specification once registration has
\* returned: registryId is the id obtained, status is PENDING_APPROVAL
NewService_Unregistered(id) == [registryId |-> NoId, status |-> PENDING_APPROVAL]
NewService(id) == [registryId |-> id, status |-> PENDING_APPROVAL]
Returned(st) == [kind |-> "returned", status |-> st, error |-> NoError]
Raised(e) == [kind |-> "raised", status |-> NoStatus, error |-> e]

\* ------------------------------------------------------------------- Init

\* a component that takes no part in the specification at hand
Idle == "idle"
UnitsIdle == ra = Idle /\ up = Idle /\ ch = Idle /\ it = Idle
ComponentsIdle == ts = Idle /\ pe = Idle /\ rr = Idle /\ UnitsIdle

\* one publish run is looked at in isolation: no other caller of the table
RepoIdle ==
    /\ schema = "no_constraint"
    /\ procs = [p \in Procs |-> [op |-> "publish", key |-> "gpt-x@1.0.0",
                                 pc |-> "done", late |-> FALSE,
                                 registryCalls |-> 0, outcome |-> "none"]]
    /\ rows = [p \in Procs |-> NoRecord]
    /\ hist = NoHist
    /\ dep = NoRow

Init ==
    /\ impl \in Impls
    /\ spec \in Specs
    /\ pc = "validate"
    /\ attempt = 1
    /\ ctx = [validationResult |-> "none", openApiResult |-> "none",
              policyResult |-> "none", registryId |-> NoId,
              testResult |-> "none", securityResult |-> "none",
              benchmarkResult |-> "none",
              approvalRequired |-> FALSE, approvalStatus |-> "none"]
    /\ service = NoService
    /\ db = NoRecord
    /\ checks = [c \in Checks |-> [st |-> "idle", attempt |-> 1]]
    /\ calls = [a \in Activities |-> 0]
    /\ rollbacks = <<>>
    /\ err = NoError
    /\ faults = 0
    /\ result = [kind |-> "running", status |-> NoStatus, error |-> NoError]
    /\ RepoIdle
    /\ ComponentsIdle

\* --------------------------------------------- PublishingWorkflow.execute

\* retryActivity's catch branch: another attempt while attempt < maxRetries,
\* otherwise the loop ends and the activity's error is raised into execute's
\* catch block.
RetryOrRaise(act) ==
    IF attempt < MaxRetries(act)
    THEN /\ attempt' = attempt + 1
         /\ pc' = pc
         /\ err' = err
    ELSE /\ attempt' = 1
         /\ pc' = "catch"
         /\ err' = RetryError(act, attempt)

\* Step 1: validateServiceSpec, with retry
WfValidate ==
    /\ impl = "workflow" /\ pc = "validate"
    /\ UNCHANGED <<repoVars, componentVars>>
    /\ calls' = Inc("validate")
    /\ \E out \in {"valid", "invalid", "throw"} :
         IF out = "throw"
         THEN RetryOrRaise("validate") /\ UNCHANGED <<ctx, result>>
         ELSE /\ attempt' = 1
              /\ err' = err
              /\ ctx' = [ctx EXCEPT !.validationResult = out]
              /\ IF WfContinueAfterValidation(out)
                 THEN /\ pc' = IF spec.openApiSpec THEN "openapi" ELSE "policy"
                      /\ result' = result
                 ELSE /\ pc' = "done"
                      /\ result' = Returned(NoStatus)
    /\ UNCHANGED <<impl, spec, service, db, checks, rollbacks>>
    /\ CountFault

\* Step 2: validateOpenAPISpec, only when the specification carries a document
WfOpenApi ==
    /\ impl = "workflow" /\ pc = "openapi"
    /\ UNCHANGED <<repoVars, componentVars>>
    /\ calls' = Inc("openapi")
    /\ \E out \in {"valid", "invalid", "throw"} :
         IF out = "throw"
         THEN RetryOrRaise("openapi") /\ UNCHANGED <<ctx, result>>
         ELSE /\ attempt' = 1
              /\ err' = err
              /\ IF WfContinueAfterOpenApi(out)
                 THEN /\ ctx' = [ctx EXCEPT !.openApiResult = out]
                      /\ pc' = "policy"
                      /\ result' = result
                 ELSE /\ ctx' = [ctx EXCEPT !.openApiResult = out,
                                            !.validationResult = out]
                      /\ pc' = "done"
                      /\ result' = Returned(NoStatus)
    /\ UNCHANGED <<impl, spec, service, db, checks, rollbacks>>
    /\ CountFault

\* Step 3: checkPolicyCompliance
WfPolicy ==
    /\ impl = "workflow" /\ pc = "policy"
    /\ UNCHANGED <<repoVars, componentVars>>
    /\ calls' = Inc("policy")
    /\ \E out \in {"compliant", "noncompliant", "throw"} :
         IF out = "throw"
         THEN RetryOrRaise("policy") /\ UNCHANGED <<ctx, result>>
         ELSE /\ attempt' = 1
              /\ err' = err
              /\ ctx' = [ctx EXCEPT !.policyResult = out]
              /\ IF WfContinueAfterPolicy(out)
                 THEN /\ pc' = "register"
                      /\ result' = result
                 ELSE /\ pc' = "done"
                      /\ result' = Returned(NoStatus)
    /\ UNCHANGED <<impl, spec, service, db, checks, rollbacks>>
    /\ CountFault

\* Steps 4 and 5: registerWithRegistry, then the Service object is built
WfRegister ==
    /\ impl = "workflow" /\ pc = "register"
    /\ UNCHANGED <<repoVars, componentVars>>
    /\ calls' = Inc("register")
    /\ \/ RetryOrRaise("register") /\ UNCHANGED <<ctx, service>>
       \/ \E id \in RegistryIds :
            /\ attempt' = 1
            /\ err' = err
            /\ ctx' = [ctx EXCEPT !.registryId = id]
            /\ service' = NewService(id)
            /\ pc' = WfAfterRegister
    /\ UNCHANGED <<impl, spec, db, checks, rollbacks, result>>
    /\ CountFault

\* Step 6: saveServiceToDatabase
WfSave ==
    /\ impl = "workflow" /\ pc = "save"
    /\ UNCHANGED <<repoVars, componentVars>>
    /\ calls' = Inc("save")
    /\ \/ RetryOrRaise("save") /\ db' = db
       \/ /\ attempt' = 1
          /\ err' = err
          /\ db' = service.status
          /\ pc' = "startTests"
    /\ UNCHANGED <<impl, spec, ctx, service, checks, rollbacks, result>>
    /\ CountFault

\* Step 7: the three checks are started together; each runs inside its own
\* retryActivity and its first attempt is invoked at once.
WfStartTests ==
    /\ impl = "workflow" /\ pc = "startTests"
    /\ UNCHANGED <<repoVars, componentVars>>
    /\ checks' = [c \in Checks |-> [st |-> "running", attempt |-> 1]]
    /\ calls' = [a \in Activities |->
                    IF a \in Checks THEN calls[a] + 1 ELSE calls[a]]
    /\ pc' = "tests"
    /\ UNCHANGED <<impl, spec, attempt, ctx, service, db, rollbacks, err, result>>
    /\ CountFault

\* One attempt of one check settles.  A raised attempt is retried (the next
\* attempt is invoked) while attempt < maxRetries; after the last one the
\* check's promise rejects.  The sub-task runs on whatever execute does.
WfCheckReturn(c) ==
    /\ impl = "workflow" /\ checks[c].st = "running"
    /\ UNCHANGED <<repoVars, componentVars>>
    /\ \E out \in {"passed", "failed", "throw"} :
         IF out = "throw"
         THEN /\ faults < MaxFaults
              /\ faults' = faults + 1
              /\ IF checks[c].attempt < MaxRetries(c)
                 THEN /\ checks' = [checks EXCEPT ![c].attempt = @ + 1]
                      /\ calls' = Inc(c)
                 ELSE /\ checks' = [checks EXCEPT ![c].st = "threw"]
                      /\ calls' = calls
         ELSE /\ checks' = [checks EXCEPT ![c].st = out]
              /\ calls' = calls
              /\ faults' = faults
    /\ UNCHANGED <<impl, spec, pc, attempt, ctx, service, db, rollbacks, err, result>>

\* Promise.all resolves: all three checks returned a result.  The results
\* are stored, and either the failure disposition or Step 8 (requiresApproval)
\* follows in the same synchronous block.
WfJoin ==
    /\ impl = "workflow" /\ pc = "tests"
    /\ UNCHANGED <<repoVars, componentVars>>
    /\ \A c \in Checks : checks[c].st \in {"passed", "failed"}
    /\ LET t == checks["tests"].st
           s == checks["security"].st
           b == checks["benchmarks"].st
           c1 == [ctx EXCEPT !.testResult = t, !.securityResult = s,
                             !.benchmarkResult = b]
       IN  IF WfTestsFailed(t, s, b)
           THEN /\ ctx' = c1
                /\ pc' = "markFailed"
           ELSE /\ ctx' = [c1 EXCEPT !.approvalRequired = requiresApproval(spec)]
                /\ pc' = IF requiresApproval(spec) THEN "createApproval"
                                                   ELSE "activate"
    /\ UNCHANGED <<impl, spec, attempt, service, db, checks, calls, rollbacks,
                   err, result>>
    /\ CountFault

\* Promise.all rejects as soon as one check's retryActivity has raised,
\* whether or not the other two have settled.
WfJoinReject ==
    /\ impl = "workflow" /\ pc = "tests"
    /\ UNCHANGED <<repoVars, componentVars>>
    /\ \E c \in Checks :
         /\ checks[c].st = "threw"
         /\ err' = RetryError(c, checks[c].attempt)
    /\ pc' = "catch"
    /\ UNCHANGED <<impl, spec, attempt, ctx, service, db, checks, calls,
                   rollbacks, faults, result>>

\* updateServiceStatus(serviceId, FAILED_VALIDATION); return context
WfMarkFailed ==
    /\ impl = "workflow" /\ pc = "markFailed"
    /\ UNCHANGED <<repoVars, componentVars>>
    /\ calls' = Inc("markFailed")
    /\ \/ /\ db' = FAILED_VALIDATION
          /\ pc' = "done"
          /\ result' = Returned(NoStatus)
          /\ err' = err
       \/ /\ pc' = "catch"
          /\ err' = ActivityError("markFailed", 1)
          /\ UNCHANGED <<db, result>>
    /\ UNCHANGED <<impl, spec, attempt, ctx, service, checks, rollbacks>>
    /\ CountFault

\* createApprovalWorkflow(context)
WfCreateApproval ==
    /\ impl = "workflow" /\ pc = "createApproval"
    /\ UNCHANGED <<repoVars, componentVars>>
    /\ calls' = Inc("createApproval")
    /\ \/ /\ ctx' = [ctx EXCEPT !.approvalStatus = "pending"]
          /\ pc' = "waitApproval"
          /\ err' = err
       \/ /\ pc' = "catch"
          /\ err' = ActivityError("createApproval", 1)
          /\ ctx' = ctx
    /\ UNCHANGED <<impl, spec, attempt, service, db, checks, rollbacks, result>>
    /\ CountFault

\* waitForApproval(approvalWorkflowId, 7 days): true, false (rejected or
\* timed out) or an error
WfWaitApproval ==
    /\ impl = "workflow" /\ pc = "waitApproval"
    /\ UNCHANGED <<repoVars, componentVars>>
    /\ calls' = Inc("waitApproval")
    /\ \/ \E approved \in BOOLEAN :
            /\ ctx' = [ctx EXCEPT !.approvalStatus =
                          IF approved THEN "approved" ELSE "rejected"]
            /\ pc' = IF WfContinueAfterApproval(approved) THEN "activate"
                                                          ELSE "markSuspended"
            /\ err' = err
       \/ /\ pc' = "catch"
          /\ err' = ActivityError("waitApproval", 1)
          /\ ctx' = ctx
    /\ UNCHANGED <<impl, spec, attempt, service, db, checks, rollbacks, result>>
    /\ CountFault

\* updateServiceStatus(serviceId, SUSPENDED); return context
WfMarkSuspended ==
    /\ impl = "workflow" /\ pc = "markSuspended"
    /\ UNCHANGED <<repoVars, componentVars>>
    /\ calls' = Inc("markSuspended")
    /\ \/ /\ db' = WfStatusAfterRejection
          /\ pc' = "done"
          /\ result' = Returned(NoStatus)
          /\ err' = err
       \/ /\ pc' = "catch"
          /\ err' = ActivityError("markSuspended", 1)
          /\ UNCHANGED <<db, result>>
    /\ UNCHANGED <<impl, spec, attempt, ctx, service, checks, rollbacks>>
    /\ CountFault

\* Step 9: updateServiceStatus(serviceId, ACTIVE)
WfActivate ==
    /\ impl = "workflow" /\ pc = "activate"
    /\ UNCHANGED <<repoVars, componentVars>>
    /\ calls' = Inc("activate")
    /\ \/ /\ db' = ACTIVE
          /\ pc' = "events"
          /\ err' = err
       \/ /\ pc' = "catch"
          /\ err' = ActivityError("activate", 1)
          /\ db' = db
    /\ UNCHANGED <<impl, spec, attempt, ctx, service, checks, rollbacks, result>>
    /\ CountFault

\* Step 10: await Promise.all([publishAnalyticsEvents, notifyGovernanceDashboard])
\* inside the try block; then return context
WfPublishEvents ==
    /\ impl = "workflow" /\ pc = "events"
    /\ UNCHANGED <<repoVars, componentVars>>
    /\ calls' = Inc2("analytics", "notify")
    /\ \E a \in {"ok", "throw"}, n \in {"ok", "throw"} :
         IF a = "ok" /\ n = "ok"
         THEN /\ pc' = "done"
              /\ result' = Returned(NoStatus)
              /\ err' = err
         ELSE /\ pc' = "catch"
              /\ err' = ActivityError(IF a = "throw" THEN "analytics"
                                                       ELSE "notify", 1)
              /\ result' = result
    /\ UNCHANGED <<impl, spec, attempt, ctx, service, db, checks, rollbacks>>
    /\ CountFault

\* catch (error): if (context.registryId) await rollbackPublication(...);
\* throw error.  The rollback call is not guarded: when it raises, its error
\* leaves execute in place of the original one.
WfRollback ==
    /\ impl = "workflow" /\ pc = "catch"
    /\ UNCHANGED <<repoVars, componentVars>>
    /\ WfNeedsRollback(ctx)
    /\ calls' = Inc("rollback")
    /\ rollbacks' = Append(rollbacks, ctx.registryId)
    /\ \/ /\ result' = Raised(err)
          /\ faults' = faults
       \/ /\ result' = Raised(ActivityError("rollback", 1))
          /\ faults < MaxFaults
          /\ faults' = faults + 1
    /\ pc' = "done"
    /\ UNCHANGED <<impl, spec, attempt, ctx, service, db, checks, err>>

\* catch (error) with no registry id: throw error
WfRethrow ==
    /\ impl = "workflow" /\ pc = "catch"
    /\ UNCHANGED <<repoVars, componentVars>>
    /\ ~WfNeedsRollback(ctx)
    /\ result' = Raised(err)
    /\ pc' = "done"
    /\ UNCHANGED <<impl, spec, attempt, ctx, service, db, checks, calls,
                   rollbacks, err>>
    /\ CountFault

\* --------------------------------------- PublishingService.publishService
\* The service awaits each collaborator once, without retryActivity; an
\* error raised by any awaited call lands in the catch block.

\* Phase 1: serviceValidator.validate; on errors trackValidationFailure
\* (AnalyticsClient.track swallows its own errors) and return.
SvcValidate ==
    /\ impl = "service" /\ pc = "validate"
    /\ UNCHANGED <<repoVars, componentVars>>
    /\ \E out \in {"valid", "invalid"} :
         /\ ctx' = [ctx EXCEPT !.validationResult = out]
         /\ IF SvcContinueAfterValidation(out)
            THEN /\ calls' = Inc("validate")
                 /\ pc' = IF spec.openApiSpec THEN "openapi" ELSE "policy"
                 /\ result' = result
            ELSE /\ calls' = Inc2("validate", "analytics")
                 /\ pc' = "done"
                 /\ result' = Returned(SvcValidationFailureStatus)
    /\ UNCHANGED <<impl, spec, attempt, service, db, checks, rollbacks, err>>
    /\ CountFault

\* Phase 2: openApiValidator.validate, only when a document is attached
SvcOpenApi ==
    /\ impl = "service" /\ pc = "openapi"
    /\ UNCHANGED <<repoVars, componentVars>>
    /\ calls' = Inc("openapi")
    /\ \E out \in {"valid", "invalid"} :
         /\ ctx' = [ctx EXCEPT !.openApiResult = out]
         /\ IF SvcContinueAfterOpenApi(out)
            THEN /\ pc' = "policy"
                 /\ result' = result
            ELSE /\ pc' = "done"
                 /\ result' = Returned(SvcValidationFailureStatus)
    /\ UNCHANGED <<impl, spec, attempt, service, db, checks, rollbacks, err>>
    /\ CountFault

\* Phase 3: policyEngineClient.validateService
SvcPolicy ==
    /\ impl = "service" /\ pc = "policy"
    /\ UNCHANGED <<repoVars, componentVars>>
    /\ calls' = Inc("policy")
    /\ \/ \E out \in {"compliant", "noncompliant"} :
            /\ ctx' = [ctx EXCEPT !.policyResult = out]
            /\ err' = err
            /\ IF SvcContinueAfterPolicy(out)
               THEN /\ pc' = "register"
                    /\ result' = result
               ELSE /\ pc' = "done"
                    /\ result' = Returned(SvcPolicyViolationStatus)
       \/ /\ pc' = "catch"
          /\ err' = ActivityError("policy", 1)
          /\ UNCHANGED <<ctx, result>>
    /\ UNCHANGED <<impl, spec, attempt, service, db, checks, rollbacks>>
    /\ CountFault

\* Phase 4: registryClient.registerService; Phase 5 builds the Service
\* object in status PENDING_APPROVAL with registryEntry.id
SvcRegister ==
    /\ impl = "service" /\ pc = "register"
    /\ UNCHANGED <<repoVars, componentVars>>
    /\ calls' = Inc("register")
    /\ \/ \E id \in RegistryIds :
            /\ ctx' = [ctx EXCEPT !.registryId = id]
            /\ service' = NewService(id)
            /\ pc' = "save"
            /\ err' = err
       \/ /\ pc' = "catch"
          /\ err' = ActivityError("register", 1)
          /\ UNCHANGED <<ctx, service>>
    /\ UNCHANGED <<impl, spec, attempt, db, checks, rollbacks, result>>
    /\ CountFault

\* saveService(service): INSERT ... ON CONFLICT (id) DO UPDATE
SvcSave ==
    /\ impl = "service" /\ pc = "save"
    /\ UNCHANGED <<repoVars, componentVars>>
    /\ calls' = Inc("save")
    /\ \/ /\ db' = service.status
          /\ pc' = "tests"
          /\ err' = err
       \/ /\ pc' = "catch"
          /\ err' = ActivityError("save", 1)
          /\ db' = db
    /\ UNCHANGED <<impl, spec, attempt, ctx, service, checks, rollbacks, result>>
    /\ CountFault

\* Phase 6: runAutomatedTests; Phase 7: requiresManualApproval.  The local
\* service.status is assigned before the database is updated.
SvcTests ==
    /\ impl = "service" /\ pc = "tests"
    /\ UNCHANGED <<repoVars, componentVars>>
    /\ calls' = Inc("tests")
    /\ \E testsPassed \in BOOLEAN :
         IF ~testsPassed
         THEN /\ ctx' = [ctx EXCEPT !.testResult = "failed"]
              /\ service' = [service EXCEPT !.status = FAILED_VALIDATION]
              /\ pc' = "markFailed"
         ELSE IF requiresManualApproval(spec)
              THEN /\ ctx' = [ctx EXCEPT !.testResult = "passed",
                                         !.approvalRequired = TRUE,
                                         !.approvalStatus = "pending"]
                   /\ service' = service
                   /\ pc' = "createApproval"
              ELSE /\ ctx' = [ctx EXCEPT !.testResult = "passed"]
                   /\ service' = [service EXCEPT !.status = ACTIVE]
                   /\ pc' = "activate"
    /\ UNCHANGED <<impl, spec, attempt, db, checks, rollbacks, err, result>>
    /\ CountFault

\* updateServiceStatus(serviceId, FAILED_VALIDATION); return
SvcMarkFailed ==
    /\ impl = "service" /\ pc = "markFailed"
    /\ UNCHANGED <<repoVars, componentVars>>
    /\ calls' = Inc("markFailed")
    /\ \/ /\ db' = FAILED_VALIDATION
          /\ pc' = "done"
          /\ result' = Returned(FAILED_VALIDATION)
          /\ err' = err
       \/ /\ pc' = "catch"
          /\ err' = ActivityError("markFailed", 1)
          /\ UNCHANGED <<db, result>>
    /\ UNCHANGED <<impl, spec, attempt, ctx, service, checks, rollbacks>>
    /\ CountFault

\* governanceClient.createApprovalWorkflow(workflowContext); the service
\* does not wait for the decision
SvcCreateApproval ==
    /\ impl = "service" /\ pc = "createApproval"
    /\ UNCHANGED <<repoVars, componentVars>>
    /\ calls' = Inc("createApproval")
    /\ \/ /\ pc' = "cache"
          /\ err' = err
       \/ /\ pc' = "catch"
          /\ err' = ActivityError("createApproval", 1)
    /\ UNCHANGED <<impl, spec, attempt, ctx, service, db, checks, rollbacks,
                   result>>
    /\ CountFault

\* updateServiceStatus(serviceId, ACTIVE)
SvcActivate ==
    /\ impl = "service" /\ pc = "activate"
    /\ UNCHANGED <<repoVars, componentVars>>
    /\ calls' = Inc("activate")
    /\ \/ /\ db' = ACTIVE
          /\ pc' = "cache"
          /\ err' = err
       \/ /\ pc' = "catch"
          /\ err' = ActivityError("activate", 1)
          /\ db' = db
    /\ UNCHANGED <<impl, spec, attempt, ctx, service, checks, rollbacks, result>>
    /\ CountFault

\* Phase 8: cacheSet(`service:${serviceId}`, service, 300)
SvcCache ==
    /\ impl = "service" /\ pc = "cache"
    /\ UNCHANGED <<repoVars, componentVars>>
    /\ calls' = Inc("cache")
    /\ \/ /\ pc' = "events"
          /\ err' = err
       \/ /\ pc' = "catch"
          /\ err' = ActivityError("cache", 1)
    /\ UNCHANGED <<impl, spec, attempt, ctx, service, db, checks, rollbacks,
                   result>>
    /\ CountFault

\* Phase 9: trackServicePublished (never raises), then
\* governanceClient.notifyServicePublished; return {status: service.status}
SvcPublishEvents ==
    /\ impl = "service" /\ pc = "events"
    /\ UNCHANGED <<repoVars, componentVars>>
    /\ calls' = Inc2("analytics", "notify")
    /\ \/ /\ pc' = "done"
          /\ result' = Returned(service.status)
          /\ err' = err
       \/ /\ pc' = "catch"
          /\ err' = ActivityError("notify", 1)
          /\ result' = result
    /\ UNCHANGED <<impl, spec, attempt, ctx, service, db, checks, rollbacks>>
    /\ CountFault

\* catch (error): analyticsClient.track('publish_failed'); throw new
\* Error(`Publishing failed: ...`).  The registry client is not called.
SvcCatch ==
    /\ impl = "service" /\ pc = "catch"
    /\ UNCHANGED <<repoVars, componentVars>>
    /\ calls' = Inc("analytics")
    /\ result' = Raised(err)
    /\ pc' = "done"
    /\ UNCHANGED <<impl, spec, attempt, ctx, service, db, checks, rollbacks, err>>
    /\ CountFault

\* ------------------------------------------------------------------- Next

Next ==
    \/ WfValidate
    \/ WfOpenApi
    \/ WfPolicy
    \/ WfRegister
    \/ WfSave
    \/ WfStartTests
    \/ \E c \in Checks : WfCheckReturn(c)
    \/ WfJoin
    \/ WfJoinReject
    \/ WfMarkFailed
    \/ WfCreateApproval
    \/ WfWaitApproval
    \/ WfMarkSuspended
    \/ WfActivate
    \/ WfPublishEvents
    \/ WfRollback
    \/ WfRethrow
    \/ SvcValidate
    \/ SvcOpenApi
    \/ SvcPolicy
    \/ SvcRegister
    \/ SvcSave
    \/ SvcTests
    \/ SvcMarkFailed
    \/ SvcCreateApproval
    \/ SvcActivate
    \/ SvcCache
    \/ SvcPublishEvents
    \/ SvcCatch


Spec == Init /\ [][Next]_vars

\* ------------------------------------------------- the services table
\* Two further specifications look at the rows of the services table.
\* SpecCreate: two create / publish calls with their (name, version) pairs,
\* in every interleaving, and deleteService retiring rows.  The schema of the
\* table is not part of the sources: a deployment either has no constraint on
\* (name, version) or rejects the second row of a pair.
\* SpecStatus: the status of one service under the status commands of the
\* controller, of PublishingService, of DeprecationWorkflow and of the
\* pipeline's status update, in any order.

\* the status table of the specification (models/service.model)
isValidStatusTransition_AllowAll(from, to) == TRUE
isValidStatusTransition(from, to) ==
    \/ from = PENDING_APPROVAL /\ to \in {ACTIVE, SUSPENDED, FAILED_VALIDATION}
    \/ from = ACTIVE /\ to \in {DEPRECATED, SUSPENDED}
    \/ from = DEPRECATED /\ to = RETIRED
    \/ from = SUSPENDED /\ to \in {ACTIVE, RETIRED}

\* findByNameAndVersion: SELECT ... WHERE name = $1 AND version = $2, with no
\* condition on the status
findByNameAndVersion(k) ==
    \E q \in Procs : rows[q] # NoRecord /\ procs[q].key = k

\* an earlier call has returned after creating a row of the pair, and that
\* row is not retired
AlreadyCreated(k) ==
    \E q \in Procs :
        /\ procs[q].pc = "done" /\ procs[q].outcome = "created"
        /\ procs[q].key = k
        /\ rows[q] \notin {NoRecord, RETIRED}

\* the INSERT of a second row of a (name, version) pair raises
InsertRaises(k) == schema = "unique_name_version" /\ findByNameAndVersion(k)

SetProc(p, f, v) == [procs EXCEPT ![p] = [@ EXCEPT ![f] = v]]
End(p, out) == [procs EXCEPT ![p] = [@ EXCEPT !.pc = "done", !.outcome = out]]
Hist(op, i, role, to, out) ==
    [op |-> op, row |-> i, role |-> role, from |-> rows[i], to |-> to,
     outcome |-> out]
Applied(op, i, role, to) ==
    /\ rows' = [rows EXCEPT ![i] = to]
    /\ hist' = Hist(op, i, role, to, "applied")
Rejected(op, i, role, to, out) ==
    /\ rows' = rows
    /\ hist' = Hist(op, i, role, to, out)

PipelineIdle ==
    /\ impl = "service"
    /\ spec = [level |-> "public", supportLevel |-> "standard",
               openApiSpec |-> FALSE]
    /\ pc = "done"
    /\ attempt = 1
    /\ ctx = [validationResult |-> "none", openApiResult |-> "none",
              policyResult |-> "none", registryId |-> NoId,
              testResult |-> "none", securityResult |-> "none",
              benchmarkResult |-> "none",
              approvalRequired |-> FALSE, approvalStatus |-> "none"]
    /\ service = NoService
    /\ db = NoRecord
    /\ checks = [c \in Checks |-> [st |-> "idle", attempt |-> 1]]
    /\ calls = [a \in Activities |-> 0]
    /\ rollbacks = <<>>
    /\ err = NoError
    /\ faults = 0
    /\ result = [kind |-> "running", status |-> NoStatus, error |-> NoError]

InitCreate ==
    /\ PipelineIdle
    /\ ComponentsIdle
    /\ schema \in Schemas
    /\ procs \in [Procs -> [op : Ops, key : Keys, pc : {"start"},
                            late : {FALSE}, registryCalls : {0},
                            outcome : {"none"}]]
    /\ rows = [p \in Procs |-> NoRecord]
    /\ hist = NoHist
    /\ dep = NoRow

\* the service of p1 has just been inserted, by create or by a publish run
\* that has still to set its status; p2 has no row
InitStatus ==
    /\ PipelineIdle
    /\ ComponentsIdle
    /\ schema = "no_constraint"
    /\ \E o \in Ops :
         procs = [p \in Procs |->
                    IF p = "p1"
                    THEN [op |-> o, key |-> "gpt-x@1.0.0",
                          pc |-> IF o = "publish" THEN "finish" ELSE "done",
                          late |-> FALSE,
                          registryCalls |-> IF o = "publish" THEN 1 ELSE 0,
                          outcome |-> IF o = "publish" THEN "none"
                                                       ELSE "created"]
                    ELSE [op |-> "create", key |-> "gpt-y@1.0.0",
                          pc |-> "done", late |-> FALSE, registryCalls |-> 0,
                          outcome |-> "none"]]
    /\ rows = [p \in Procs |-> IF p = "p1" THEN PENDING_APPROVAL ELSE NoRecord]
    /\ hist = NoHist
    /\ dep = NoRow

\* repository create, up to its first await: the duplicate check
CreateFind(p) ==
    /\ procs[p].op = "create" /\ procs[p].pc = "start"
    /\ LET seen == [procs EXCEPT ![p].late = AlreadyCreated(procs[p].key)]
       IN  IF findByNameAndVersion(procs[p].key)
           THEN procs' = [seen EXCEPT ![p].pc = "done",
                                      ![p].outcome = "ConflictError"]
           ELSE procs' = [seen EXCEPT ![p].pc = "insert"]
    /\ UNCHANGED <<pipelineVars, componentVars, schema, rows, hist, dep>>

\* repository create, the INSERT with status pending_approval; an error of
\* the database is not caught
CreateInsert(p) ==
    /\ procs[p].op = "create" /\ procs[p].pc = "insert"
    /\ IF InsertRaises(procs[p].key)
       THEN /\ procs' = End(p, "UniqueViolation")
            /\ rows' = rows
       ELSE /\ procs' = End(p, "created")
            /\ rows' = [rows EXCEPT ![p] = PENDING_APPROVAL]
    /\ UNCHANGED <<pipelineVars, componentVars, schema, hist, dep>>

\* publishService, Phases 1 to 4 with a valid and compliant specification:
\* the registry is called without any look at the table
PublishRegister(p) ==
    /\ procs[p].op = "publish" /\ procs[p].pc = "start"
    /\ procs' = [procs EXCEPT ![p].late = AlreadyCreated(procs[p].key),
                              ![p].registryCalls = @ + 1,
                              ![p].pc = "save"]
    /\ UNCHANGED <<pipelineVars, componentVars, schema, rows, hist, dep>>

\* saveService: INSERT ... ON CONFLICT (id) DO UPDATE, the id being a fresh
\* uuid; an error lands in the catch block, which re-throws it as
\* 'Publishing failed: ...'
PublishSave(p) ==
    /\ procs[p].op = "publish" /\ procs[p].pc = "save"
    /\ IF InsertRaises(procs[p].key)
       THEN /\ procs' = End(p, "PublishingFailed")
            /\ rows' = rows
       ELSE /\ procs' = SetProc(p, "pc", "finish")
            /\ rows' = [rows EXCEPT ![p] = PENDING_APPROVAL]
    /\ UNCHANGED <<pipelineVars, componentVars, schema, hist, dep>>

\* publishService, Phases 6 and 7: updateServiceStatus(serviceId,
\* FAILED_VALIDATION) or updateServiceStatus(serviceId, ACTIVE), or no status
\* update when approval is required
PublishFinish(p) ==
    /\ procs[p].op = "publish" /\ procs[p].pc = "finish"
    /\ \E s \in {FAILED_VALIDATION, ACTIVE, PENDING_APPROVAL} :
         IF s = PENDING_APPROVAL
         THEN UNCHANGED <<rows, hist>>
         ELSE Applied("pipeline", p, "none", s)
    /\ procs' = End(p, "created")
    /\ UNCHANGED <<pipelineVars, componentVars, schema, dep>>

\* controller updateService with a status in the body
CtlUpdateService(i, s, role) ==
    /\ IF rows[i] = NoRecord
       THEN Rejected("updateService", i, role, s, "NotFoundError")
       ELSE IF role = "other"
       THEN Rejected("updateService", i, role, s, "AuthorizationError")
       ELSE IF s # rows[i] /\ ~isValidStatusTransition(rows[i], s)
       THEN Rejected("updateService", i, role, s, "ValidationError")
       ELSE Applied("updateService", i, role, s)
    /\ UNCHANGED <<pipelineVars, componentVars, schema, procs, dep>>

\* controller publishService: update(serviceId, {status: ACTIVE})
CtlPublishService(i) ==
    /\ IF rows[i] = NoRecord
       THEN Rejected("publishService", i, "none", ACTIVE, "NotFoundError")
       ELSE Applied("publishService", i, "none", ACTIVE)
    /\ UNCHANGED <<pipelineVars, componentVars, schema, procs, dep>>

\* controller deprecateService: update(serviceId, {status: DEPRECATED});
\* update raises NotFoundError when no row was updated.  The caller (role)
\* is not looked at.
CtlDeprecateService(i, role) ==
    /\ IF rows[i] = NoRecord
       THEN Rejected("deprecateService", i, role, DEPRECATED,
                     "NotFoundError")
       ELSE Applied("deprecateService", i, role, DEPRECATED)
    /\ UNCHANGED <<pipelineVars, componentVars, schema, procs, dep>>

\* controller suspendService: update(serviceId, {status: SUSPENDED, ...});
\* the caller (role) is not looked at
CtlSuspendService(i, role) ==
    /\ IF rows[i] = NoRecord
       THEN Rejected("suspendService", i, role, SUSPENDED,
                     "NotFoundError")
       ELSE Applied("suspendService", i, role, SUSPENDED)
    /\ UNCHANGED <<pipelineVars, componentVars, schema, procs, dep>>

\* controller deleteService: repository deleteService sets status RETIRED
CtlDeleteService(i, role) ==
    /\ IF rows[i] = NoRecord
       THEN Rejected("deleteService", i, role, RETIRED, "NotFoundError")
       ELSE IF role = "other"
       THEN Rejected("deleteService", i, role, RETIRED, "AuthorizationError")
       ELSE Applied("deleteService", i, role, RETIRED)
    /\ UNCHANGED <<pipelineVars, componentVars, schema, procs, dep>>

\* PublishingService.updateService with a status among the updates: the
\* merged service is validated and saved (ON CONFLICT (id) DO UPDATE SET ...
\* status = EXCLUDED.status)
SvcUpdateService(i, s, owner, valid) ==
    /\ IF rows[i] = NoRecord
       THEN Rejected("PublishingService.updateService", i, "none", s,
                     "NotFound")
       ELSE IF ~owner
       THEN Rejected("PublishingService.updateService", i, "other", s,
                     "Unauthorized")
       ELSE IF ~valid
       THEN Rejected("PublishingService.updateService", i, "provider", s,
                     "ValidationFailed")
       ELSE Applied("PublishingService.updateService", i, "provider", s)
    /\ UNCHANGED <<pipelineVars, componentVars, schema, procs, dep>>

\* PublishingService.deprecateService
SvcDeprecateService(i, owner) ==
    /\ IF rows[i] = NoRecord
       THEN Rejected("PublishingService.deprecateService", i, "none",
                     DEPRECATED, "NotFound")
       ELSE IF ~owner
       THEN Rejected("PublishingService.deprecateService", i, "other",
                     DEPRECATED, "Unauthorized")
       ELSE Applied("PublishingService.deprecateService", i, "provider",
                    DEPRECATED)
    /\ UNCHANGED <<pipelineVars, componentVars, schema, procs, dep>>

\* DeprecationWorkflow.execute, Step 1: updateServiceStatus(DEPRECATED)
DeprecationStart(i) ==
    /\ dep = NoRow
    /\ rows[i] # NoRecord
    /\ Applied("DeprecationWorkflow", i, "none", DEPRECATED)
    /\ dep' = i
    /\ UNCHANGED <<pipelineVars, componentVars, schema, procs>>

\* DeprecationWorkflow.execute, Step 4, after the grace period:
\* updateServiceStatus(RETIRED)
DeprecationRetire ==
    /\ dep # NoRow
    /\ Applied("DeprecationWorkflow", dep, "none", RETIRED)
    /\ dep' = NoRow
    /\ UNCHANGED <<pipelineVars, componentVars, schema, procs>>

NextCreate ==
    \/ \E p \in Procs : CreateFind(p)
    \/ \E p \in Procs : CreateInsert(p)
    \/ \E p \in Procs : PublishRegister(p)
    \/ \E p \in Procs : PublishSave(p)
    \/ \E p \in Procs : PublishFinish(p)
    \/ \E i \in Procs, role \in Roles : CtlDeleteService(i, role)

SpecCreate == InitCreate /\ [][NextCreate]_vars

NextStatus ==
    \/ \E p \in Procs : PublishFinish(p)
    \/ \E i \in Procs, s \in ServiceStatus, role \in Roles :
         CtlUpdateService(i, s, role)
    \/ \E i \in Procs : CtlPublishService(i)
    \/ \E i \in Procs, role \in Roles : CtlDeprecateService(i, role)
    \/ \E i \in Procs, role \in Roles : CtlSuspendService(i, role)
    \/ \E i \in Procs, role \in Roles : CtlDeleteService(i, role)
    \/ \E i \in Procs, s \in ServiceStatus, owner \in BOOLEAN, valid \in BOOLEAN :
         SvcUpdateService(i, s, owner, valid)
    \/ \E i \in Procs, owner \in BOOLEAN : SvcDeprecateService(i, owner)
    \/ \E i \in Procs : DeprecationStart(i)
    \/ DeprecationRetire

SpecStatus == InitStatus /\ [][NextStatus]_vars

\* ------------------------------------------------------ the test suite
\* SpecTests: one run of TestOrchestrator.runTestSuite.  The service record
\* and what the environment answers (the endpoint's response, the measured
\* times) are drawn at the start; a service built from a partial
\* specification may lack its endpoint, sla or compliance object.  The three
\* checks advance from await to await in any order.

TestServices ==
    [endpoint : {"absent", "http", "https"}, sla : BOOLEAN,
     compliance : BOOLEAN, confidential : BOOLEAN, certifications : BOOLEAN,
     throughput : BOOLEAN]
TestEnvs ==
    [production : BOOLEAN, http : {"ok", "5xx", "unreachable"},
     withinSLA : BOOLEAN, avgWithin : BOOLEAN, availabilityOk : BOOLEAN]

CountOf(seq, x) == Cardinality({i \in DOMAIN seq : seq[i] = x})

\* testEndpointAccessibility: passed iff the endpoint answers below 500
EndpointAccessibility(svc, env) ==
    IF svc.endpoint # "absent" /\ env.http = "ok" THEN "passed" ELSE "failed"

\* testResponseTime: duration <= service.sla.maxLatency, inside its try
ResponseTime(svc, env) ==
    IF svc.sla /\ env.withinSLA THEN "passed" ELSE "failed"

\* the k-th sub-check of runHealthChecks; testAuthentication, testApiResponse
\* and testErrorHandling are mocks that pass
HealthTest(k, svc, env) ==
    CASE k = 1 -> EndpointAccessibility(svc, env)
      [] k = 5 -> ResponseTime(svc, env)
      [] OTHER -> "passed"

\* runHealthChecks, normal path: passed: failed === 0
HealthSummary(tests) ==
    [done |-> TRUE, passed |-> CountOf(tests, "failed") = 0,
     total |-> Len(tests), failed |-> CountOf(tests, "failed"),
     skipped |-> CountOf(tests, "skipped"), tests |-> tests]

\* runHealthChecks, catch block: failed: tests.length
HealthErrorResult(tests) ==
    [done |-> TRUE, passed |-> FALSE, total |-> Len(tests),
     failed |-> Len(tests), skipped |-> 0, tests |-> tests]

\* runHealthChecks raises before its first sub-check: the log entry reads
\* service.endpoint.url
HealthRaises(svc) == svc.endpoint = "absent"

\* runSecurityScan reads service.endpoint.authentication,
\* service.compliance.level and service.sla.supportLevel
SecurityRaises(svc) == svc.endpoint = "absent" \/ ~svc.compliance \/ ~svc.sla

\* Check 1: HTTPS enforcement.  Checks 2 to 4 (authentication, confidential
\* level, enterprise support) write a debug log entry and add no finding.
Vulnerabilities(svc, env) ==
    IF env.production /\ svc.endpoint = "http" THEN <<"critical">> ELSE <<>>

\* runSecurityScan: normal path, and the SEC-ERROR result of the catch block
SecurityErrorResult ==
    [done |-> TRUE, passed |-> FALSE, vulnerabilities |-> <<"high">>]
SecurityScan(svc, env) ==
    IF SecurityRaises(svc)
    THEN SecurityErrorResult
    ELSE [done |-> TRUE,
          passed |-> CountOf(Vulnerabilities(svc, env), "critical") = 0,
          vulnerabilities |-> Vulnerabilities(svc, env)]

\* benchmarkResponseTime raises out of its own catch block, which reads
\* service.sla.maxLatency again
BenchmarkRaises(svc) == ~svc.sla

\* runPerformanceBenchmarks: the availability metric, then
\* passed: metrics.every((m) => m.passed)
BenchmarkSummary(metrics, env) ==
    LET all == Append(metrics, env.availabilityOk)
    IN  [done |-> TRUE, passed |-> \A i \in DOMAIN all : all[i],
         metrics |-> all]

\* runPerformanceBenchmarks, catch block
BenchmarkErrorResult == [done |-> TRUE, passed |-> FALSE, metrics |-> <<>>]

\* overallPassed
OverallPassed_Any(t, sc, b) == t \/ sc \/ b
OverallPassed(t, sc, b) == t /\ sc /\ b

\* what a step of a check does to the service object it was given: nothing
ServiceAfterCheck_Written(svc) == [svc EXCEPT !.sla = FALSE]
ServiceAfterCheck(svc) == svc

\* how a check whose body raised settles: its catch block returns a result,
\* so its promise is fulfilled
CaughtCheck_Rethrown == "rejected"
CaughtCheck == "done"

NoHealth ==
    [done |-> FALSE, passed |-> FALSE, total |-> 0, failed |-> 0,
     skipped |-> 0, tests |-> <<>>]
NoSecurity == [done |-> FALSE, passed |-> FALSE, vulnerabilities |-> <<>>]
NoBenchmark == [done |-> FALSE, passed |-> FALSE, metrics |-> <<>>]

InitTests ==
    /\ PipelineIdle
    /\ RepoIdle
    /\ pe = Idle /\ rr = Idle /\ UnitsIdle
    /\ \E svc \in TestServices, env \in TestEnvs :
         ts = [svc |-> svc, env |-> env,
               ref |-> [c \in Checks |-> "none"],
               pc |-> [c \in Checks |-> "idle"],
               tests |-> <<>>, metrics |-> <<>>,
               health |-> NoHealth, security |-> NoSecurity,
               benchmark |-> NoBenchmark,
               suite |-> [kind |-> "running", overallPassed |-> FALSE]]

\* runTestSuite: Promise.all([runHealthChecks(service),
\* runSecurityScan(service), runPerformanceBenchmarks(service)]): each check
\* is handed the same service object
TsStart ==
    /\ \A c \in Checks : ts.pc[c] = "idle"
    /\ ts' = [ts EXCEPT !.ref = [c \in Checks |-> "service"],
                        !.pc = [c \in Checks |-> "running"]]
    /\ UNCHANGED <<pipelineVars, repoVars, pe, rr, unitVars>>

\* runHealthChecks, from one await to the next: the k-th sub-check returns
\* and is pushed; after the fifth the result is built
TsHealthStep ==
    /\ ts.pc["tests"] = "running"
    /\ LET k == Len(ts.tests) + 1
           pushed == Append(ts.tests, HealthTest(k, ts.svc, ts.env))
       IN  IF HealthRaises(ts.svc)
           THEN ts' = [ts EXCEPT !.health = HealthErrorResult(ts.tests),
                                 !.pc["tests"] = CaughtCheck,
                                 !.svc = ServiceAfterCheck(@)]
           ELSE IF k < 5
           THEN ts' = [ts EXCEPT !.tests = pushed,
                                 !.svc = ServiceAfterCheck(@)]
           ELSE ts' = [ts EXCEPT !.tests = pushed,
                                 !.health = HealthSummary(pushed),
                                 !.pc["tests"] = "done",
                                 !.svc = ServiceAfterCheck(@)]
    /\ UNCHANGED <<pipelineVars, repoVars, pe, rr, unitVars>>

\* runSecurityScan has no await: it runs to its result in one piece
TsSecurityScan ==
    /\ ts.pc["security"] = "running"
    /\ ts' = [ts EXCEPT !.security = SecurityScan(ts.svc, ts.env),
                        !.pc["security"] =
                            IF SecurityRaises(ts.svc) THEN CaughtCheck
                                                      ELSE "done",
                        !.svc = ServiceAfterCheck(@)]
    /\ UNCHANGED <<pipelineVars, repoVars, pe, rr, unitVars>>

\* runPerformanceBenchmarks, up to the await of benchmarkThroughput (for
\* text-generation and embeddings) or, for other categories, to its result
TsBenchmarkResponseTime ==
    /\ ts.pc["benchmarks"] = "running"
    /\ ts.metrics = <<>>
    /\ LET m == <<ts.env.avgWithin>>
       IN  IF BenchmarkRaises(ts.svc)
           THEN ts' = [ts EXCEPT !.benchmark = BenchmarkErrorResult,
                                 !.pc["benchmarks"] = CaughtCheck,
                                 !.svc = ServiceAfterCheck(@)]
           ELSE IF ts.svc.throughput
           THEN ts' = [ts EXCEPT !.metrics = m,
                                 !.svc = ServiceAfterCheck(@)]
           ELSE ts' = [ts EXCEPT !.metrics = m,
                                 !.benchmark = BenchmarkSummary(m, ts.env),
                                 !.pc["benchmarks"] = "done",
                                 !.svc = ServiceAfterCheck(@)]
    /\ UNCHANGED <<pipelineVars, repoVars, pe, rr, unitVars>>

\* benchmarkThroughput returns (the mock is always above its threshold),
\* then the result is built
TsBenchmarkThroughput ==
    /\ ts.pc["benchmarks"] = "running"
    /\ ts.metrics # <<>>
    /\ LET m == Append(ts.metrics, TRUE)
       IN  ts' = [ts EXCEPT !.metrics = m,
                            !.benchmark = BenchmarkSummary(m, ts.env),
                            !.pc["benchmarks"] = "done",
                            !.svc = ServiceAfterCheck(@)]
    /\ UNCHANGED <<pipelineVars, repoVars, pe, rr, unitVars>>

\* Promise.all settles.  Fulfilled by all three checks: overallPassed is
\* computed and the result returned.  Rejected by one of them: the catch
\* block of runTestSuite raises "Test suite failed".
TsJoin ==
    /\ ts.suite.kind = "running"
    /\ \/ \A c \in Checks : ts.pc[c] = "done"
       \/ \E c \in Checks : ts.pc[c] = "rejected"
    /\ ts' = [ts EXCEPT !.suite =
                 IF \E c \in Checks : ts.pc[c] = "rejected"
                 THEN [kind |-> "raised", overallPassed |-> FALSE]
                 ELSE [kind |-> "returned",
                       overallPassed |-> OverallPassed(ts.health.passed,
                                                       ts.security.passed,
                                                       ts.benchmark.passed)]]
    /\ UNCHANGED <<pipelineVars, repoVars, pe, rr, unitVars>>

NextTests ==
    \/ TsStart
    \/ TsHealthStep
    \/ TsSecurityScan
    \/ TsBenchmarkResponseTime
    \/ TsBenchmarkThroughput
    \/ TsJoin

SpecTests == InitTests /\ [][NextTests]_vars

\* -------------------------------------------------- the policy engine client
\* SpecPolicy: one call of PolicyEngineClient.validateService.  The service
\* is a Partial<Service>: its compliance object, and the dataResidency list
\* inside it, may be absent.

Countries == {"US", "DE", "KP", "IR", "SY"}
CountryLists == UNION {[1..n -> Countries] : n \in 0..MaxCountries}

PolicyServices ==
    [compliance : BOOLEAN, hasDataResidency : BOOLEAN,
     dataResidency : CountryLists, level : {"public", "confidential"},
     certifications : BOOLEAN, endpoint : {"absent", "http", "https"},
     enterprise : BOOLEAN, below999 : BOOLEAN, production : BOOLEAN]

Violation(policy, severity) == [policy |-> policy, severity |-> severity]

restrictedCountries == {"KP", "IR", "SY"}

\* service.compliance?.dataResidency
DataResidencyGiven(svc) == svc.compliance /\ svc.hasDataResidency

\* service.compliance?.dataResidency.some(...) on a compliance object that
\* has no dataResidency list
DataResidencyRaises(svc) == svc.compliance /\ ~svc.hasDataResidency

hasRestricted(svc) ==
    /\ DataResidencyGiven(svc)
    /\ \E i \in DOMAIN svc.dataResidency :
           svc.dataResidency[i] \in restrictedCountries

validateDataResidencyPolicy(svc) ==
    (IF ~DataResidencyGiven(svc) \/ Len(svc.dataResidency) = 0
     THEN <<Violation("data-residency-required", "high")>> ELSE <<>>)
    \o (IF hasRestricted(svc)
        THEN <<Violation("restricted-countries", "critical")>> ELSE <<>>)

validateCompliancePolicy(svc) ==
    IF svc.compliance /\ svc.level = "confidential" /\ ~svc.certifications
    THEN <<Violation("confidential-certification-required", "high")>>
    ELSE <<>>

validateSecurityPolicy(svc) ==
    IF svc.production /\ svc.endpoint = "http"
    THEN <<Violation("https-required", "critical")>> ELSE <<>>

validatePricingPolicy(svc) ==
    IF svc.enterprise /\ svc.below999
    THEN <<Violation("enterprise-sla-minimum", "medium")>> ELSE <<>>

\* compliant: violations.length === 0
Compliant_NoHigh(violations) ==
    \A i \in DOMAIN violations : violations[i].severity # "high"
Compliant(violations) == Len(violations) = 0

InitPolicy ==
    /\ PipelineIdle
    /\ RepoIdle
    /\ ts = Idle /\ rr = Idle /\ UnitsIdle
    /\ \E svc \in PolicyServices :
         pe = [svc |-> svc, kind |-> "called", compliant |-> FALSE,
               violations |-> <<>>]

\* validateService: the four policies in order, then the result; an error
\* raised inside is rethrown as "Policy validation failed"
PeValidateService ==
    /\ pe.kind = "called"
    /\ LET v == validateDataResidencyPolicy(pe.svc)
                    \o validateCompliancePolicy(pe.svc)
                    \o validateSecurityPolicy(pe.svc)
                    \o validatePricingPolicy(pe.svc)
       IN  IF DataResidencyRaises(pe.svc)
           THEN pe' = [pe EXCEPT !.kind = "raised"]
           ELSE pe' = [pe EXCEPT !.kind = "returned",
                                 !.compliant = Compliant(v),
                                 !.violations = v]
    /\ UNCHANGED <<pipelineVars, repoVars, ts, rr, unitVars>>

NextPolicy == PeValidateService

SpecPolicy == InitPolicy /\ [][NextPolicy]_vars

\* ------------------------------------------------ execute, invoked again
\* SpecRerun: PublishingWorkflow.execute invoked several times, one run after
\* the other, each with a service id chosen by the caller; a run may be cut
\* short by a crash of the process at any await.  Followed are the side
\* effects the activities ask of their collaborators: registry entries,
\* local records and approval workflows, per service id.  The validation,
\* policy and test steps are taken to pass.

ServiceIds == {"id-1", "id-2"}

\* registerWithRegistry returns the same registry id every time
RegistryIdOf(id) == "registry-id-12345"

\* saveServiceToDatabase: one row per id (INSERT ... ON CONFLICT (id) DO
\* UPDATE in PublishingService.saveService)
SavedRecords(records, id) == records \cup {id}

InitRerun ==
    /\ PipelineIdle
    /\ RepoIdle
    /\ ts = Idle /\ pe = Idle /\ UnitsIdle
    /\ \E ar \in BOOLEAN :
         rr = [approvalRequired |-> ar, pc |-> "idle", id |-> "none",
               runs |-> 0, registry |-> {}, records |-> {},
               approvals |-> [i \in ServiceIds |-> 0],
               inflight |-> [i \in ServiceIds |-> FALSE],
               status |-> [i \in ServiceIds |-> NoRecord]]

\* execute(serviceId, ...): a fresh context; Steps 1-3 pass
RrExecute(id) ==
    /\ rr.pc \in {"idle", "done"}
    /\ rr.runs < MaxRuns
    /\ rr' = [rr EXCEPT !.pc = "register", !.id = id, !.runs = @ + 1]
    /\ UNCHANGED <<pipelineVars, repoVars, ts, pe, unitVars>>

\* Step 4: registerWithRegistry
RrRegister ==
    /\ rr.pc = "register"
    /\ rr' = [rr EXCEPT !.registry = @ \cup {<<rr.id, RegistryIdOf(rr.id)>>},
                        !.pc = "save"]
    /\ UNCHANGED <<pipelineVars, repoVars, ts, pe, unitVars>>

\* Steps 5-7: the record is saved with status pending_approval, the checks
\* pass; Step 8: requiresApproval
RrSave ==
    /\ rr.pc = "save"
    /\ rr' = [rr EXCEPT !.records = SavedRecords(@, rr.id),
                        !.status[rr.id] = PENDING_APPROVAL,
                        !.pc = IF rr.approvalRequired THEN "createApproval"
                                                      ELSE "activate"]
    /\ UNCHANGED <<pipelineVars, repoVars, ts, pe, unitVars>>

\* Step 8: createApprovalWorkflow is invoked whenever approval is required;
\* neither execute nor the activity looks at the workflows already created
\* for the id
RrCreateApproval ==
    /\ rr.pc = "createApproval"
    /\ rr' = [rr EXCEPT !.approvals[rr.id] = @ + 1,
                        !.inflight[rr.id] = TRUE,
                        !.pc = "waitApproval"]
    /\ UNCHANGED <<pipelineVars, repoVars, ts, pe, unitVars>>

\* waitForApproval returns; a rejection suspends the service and ends the run
RrWaitApproval ==
    /\ rr.pc = "waitApproval"
    /\ \E approved \in BOOLEAN :
         rr' = [rr EXCEPT !.inflight[rr.id] = FALSE,
                          !.status[rr.id] =
                              IF approved THEN @ ELSE WfStatusAfterRejection,
                          !.pc = IF WfContinueAfterApproval(approved)
                                 THEN "activate" ELSE "done"]
    /\ UNCHANGED <<pipelineVars, repoVars, ts, pe, unitVars>>

\* Steps 9-10: the service goes active, the run returns
RrActivate ==
    /\ rr.pc = "activate"
    /\ rr' = [rr EXCEPT !.status[rr.id] = ACTIVE, !.pc = "done"]
    /\ UNCHANGED <<pipelineVars, repoVars, ts, pe, unitVars>>

\* the process dies in the middle of a run: nothing is undone
RrCrash ==
    /\ rr.pc \notin {"idle", "done"}
    /\ rr' = [rr EXCEPT !.pc = "idle"]
    /\ UNCHANGED <<pipelineVars, repoVars, ts, pe, unitVars>>

NextRerun ==
    \/ \E id \in ServiceIds : RrExecute(id)
    \/ RrRegister
    \/ RrSave
    \/ RrCreateApproval
    \/ RrWaitApproval
    \/ RrActivate
    \/ RrCrash

SpecRerun == InitRerun /\ [][NextRerun]_vars

\* --------------------------------------------------------- retryActivity
\* SpecRetry: one call of PublishingWorkflow.retryActivity(activity,
\* maxRetries).  An attempt is a call of the activity, which the collaborator
\* behind it may settle by returning or by raising; between two attempts the
\* loop sleeps on a timer.  The timer always fires; nothing in retryActivity
\* or in execute bounds the time an attempt may stay unsettled, so only the
\* timer is given fairness.

ErrorKinds == {"unavailable", "conflict", "internal"}

\* const delayMs = Math.pow(2, attempt - 1) * 1000, attempt being n
BackoffDelayMs_Linear(n) == n * 1000
BackoffDelayMs(n) == 2 ^ (n - 1) * 1000

InitRetry ==
    /\ PipelineIdle
    /\ RepoIdle
    /\ ts = Idle /\ pe = Idle /\ rr = Idle
    /\ up = Idle /\ ch = Idle /\ it = Idle
    /\ \E m \in 1..MaxAttempts :
         ra = [maxRetries |-> m, attempt |-> 1, pc |-> "call",
               lastError |-> "none", delays |-> <<>>]

\* return await activity()
RaReturn ==
    /\ ra.pc = "call"
    /\ ra' = [ra EXCEPT !.pc = "returned"]
    /\ UNCHANGED <<pipelineVars, repoVars, ts, pe, rr, up, ch, it>>

\* catch (error): lastError is kept; below the ceiling the loop sleeps
\* delayMs, at the ceiling it ends and "Activity failed after ... retries"
\* is thrown
RaRaise(e) ==
    /\ ra.pc = "call"
    /\ IF ra.attempt < ra.maxRetries
       THEN ra' = [ra EXCEPT !.lastError = e, !.pc = "sleep",
                             !.delays = Append(@, BackoffDelayMs(ra.attempt))]
       ELSE ra' = [ra EXCEPT !.lastError = e, !.pc = "raised"]
    /\ UNCHANGED <<pipelineVars, repoVars, ts, pe, rr, up, ch, it>>

\* the timer fires: attempt++ and the activity is called again
RaWake ==
    /\ ra.pc = "sleep"
    /\ ra' = [ra EXCEPT !.attempt = @ + 1, !.pc = "call"]
    /\ UNCHANGED <<pipelineVars, repoVars, ts, pe, rr, up, ch, it>>

NextRetry ==
    \/ RaReturn
    \/ \E e \in ErrorKinds : RaRaise(e)
    \/ RaWake

SpecRetry == InitRetry /\ [][NextRetry]_vars /\ WF_vars(RaWake)

\* ------------------------------------------ PublishingService.updateService
\* SpecUpdate: the services rows, keyed by id, under any sequence of calls
\* of updateService(serviceId, providerId, updates).  updates is a
\* Partial<Service>: any field may be given, id and providerId included.

Providers == {"prov-1", "prov-2"}
NoRowAt == [exists |-> FALSE, providerId |-> Absent, status |-> Absent]
ServiceUpdates ==
    [id : ServiceIds \cup {Absent}, providerId : Providers \cup {Absent},
     status : {ACTIVE, DEPRECATED, Absent}]

\* const updatedService = { ...existingService, ...updates, ... }
MergedService(serviceId, existing, updates) ==
    [id |-> IF updates.id # Absent THEN updates.id ELSE serviceId,
     providerId |-> IF updates.providerId # Absent THEN updates.providerId
                                                   ELSE existing.providerId,
     status |-> IF updates.status # Absent THEN updates.status
                                           ELSE existing.status]

\* saveService: INSERT ... VALUES (id, ..., provider_id, ..., status, ...)
\* ON CONFLICT (id) DO UPDATE SET ... status = EXCLUDED.status (provider_id
\* is not among the columns set on conflict)
SavedRows(table, svc) ==
    IF table[svc.id].exists
    THEN [table EXCEPT ![svc.id].status = svc.status]
    ELSE [table EXCEPT ![svc.id] = [exists |-> TRUE,
                                    providerId |-> svc.providerId,
                                    status |-> svc.status]]

InitUpdate ==
    /\ PipelineIdle
    /\ RepoIdle
    /\ ts = Idle /\ pe = Idle /\ rr = Idle
    /\ ra = Idle /\ ch = Idle /\ it = Idle
    /\ \E owner \in Providers :
         up = [table |-> [i \in ServiceIds |->
                            IF i = "id-1"
                            THEN [exists |-> TRUE, providerId |-> owner,
                                  status |-> PENDING_APPROVAL]
                            ELSE NoRowAt],
               serviceId |-> "none", outcome |-> "none",
               updates |-> [id |-> Absent, providerId |-> Absent,
                            status |-> Absent]]

\* updateService: the existing record is read, the caller must be its
\* provider, the merged record must validate; then it is saved
UpUpdateService(serviceId, providerId, updates, valid) ==
    /\ LET existing == up.table[serviceId]
           merged == MergedService(serviceId, existing, updates)
           outcome == IF ~existing.exists THEN "NotFound"
                      ELSE IF existing.providerId # providerId
                      THEN "Unauthorized"
                      ELSE IF ~valid THEN "ValidationFailed"
                      ELSE "updated"
       IN  up' = [table |-> IF outcome = "updated"
                            THEN SavedRows(up.table, merged)
                            ELSE up.table,
                  serviceId |-> serviceId, updates |-> updates,
                  outcome |-> outcome]
    /\ UNCHANGED <<pipelineVars, repoVars, ts, pe, rr, ra, ch, it>>

NextUpdate ==
    \E serviceId \in ServiceIds, providerId \in Providers,
       updates \in ServiceUpdates, valid \in BOOLEAN :
        UpUpdateService(serviceId, providerId, updates, valid)

SpecUpdate == InitUpdate /\ [][NextUpdate]_vars

\* ------------------------------------------------------ the service cache
\* SpecCache: one service id, its database row and its cache entry
\* service:<id>; one call of PublishingService.deprecateService and two
\* calls of getService, every await a point where the others may run.

Readers == {"r1", "r2"}

InitCache ==
    /\ PipelineIdle
    /\ RepoIdle
    /\ ts = Idle /\ pe = Idle /\ rr = Idle
    /\ ra = Idle /\ up = Idle /\ it = Idle
    /\ \E cached \in {"none", ACTIVE} :
         ch = [db |-> ACTIVE, cache |-> cached, mutation |-> "called",
               readers |-> [r \in Readers |->
                              [pc |-> "idle", row |-> "none",
                               afterMutation |-> FALSE, result |-> "none"]]]

\* getService: cacheGet; a hit is returned as it is
ChCacheGet(r) ==
    /\ ch.readers[r].pc = "idle"
    /\ ch' = [ch EXCEPT
                 !.readers[r].afterMutation = (ch.mutation = "returned"),
                 !.readers[r].pc = IF ch.cache # "none" THEN "done"
                                                        ELSE "select",
                 !.readers[r].result = ch.cache]
    /\ UNCHANGED <<pipelineVars, repoVars, ts, pe, rr, ra, up, it>>

\* getService: SELECT * FROM services WHERE id = $1
ChSelect(r) ==
    /\ ch.readers[r].pc = "select"
    /\ ch' = [ch EXCEPT !.readers[r].row = ch.db, !.readers[r].pc = "fill"]
    /\ UNCHANGED <<pipelineVars, repoVars, ts, pe, rr, ra, up, it>>

\* getService: cacheSet(`service:${serviceId}`, service, 300); return service
ChCacheSet(r) ==
    /\ ch.readers[r].pc = "fill"
    /\ ch' = [ch EXCEPT !.cache = ch.readers[r].row,
                        !.readers[r].result = ch.readers[r].row,
                        !.readers[r].pc = "done"]
    /\ UNCHANGED <<pipelineVars, repoVars, ts, pe, rr, ra, up, it>>

\* deprecateService: updateServiceStatus(serviceId, DEPRECATED)
ChUpdateStatus ==
    /\ ch.mutation = "called"
    /\ ch' = [ch EXCEPT !.db = DEPRECATED, !.mutation = "written"]
    /\ UNCHANGED <<pipelineVars, repoVars, ts, pe, rr, ra, up, it>>

\* deprecateService: cacheDelete(`service:${serviceId}`), then it returns
ChCacheDelete ==
    /\ ch.mutation = "written"
    /\ ch' = [ch EXCEPT !.cache = "none", !.mutation = "returned"]
    /\ UNCHANGED <<pipelineVars, repoVars, ts, pe, rr, ra, up, it>>

NextCache ==
    \/ \E r \in Readers : ChCacheGet(r)
    \/ \E r \in Readers : ChSelect(r)
    \/ \E r \in Readers : ChCacheSet(r)
    \/ ChUpdateStatus
    \/ ChCacheDelete

SpecCache == InitCache /\ [][NextCache]_vars

\* ------------------------------------------------- the SDK page iterators
\* SpecIter: one run of iterateServices (iterateSearchResults is the same
\* loop over searchServices), driven to its end by a for await loop.  The
\* server chooses each page, its nextCursor and its hasMore.

PageResponses ==
    [data : {<<>>, <<"a">>, <<"a", "b">>, <<"b", "a">>},
     nextCursor : {"c1", "c2", Absent}, hasMore : BOOLEAN]

\* cursor = response.pagination.nextCursor
NextCursor_First(response) == Absent
NextCursor(response) == response.nextCursor

\* let cursor: string | undefined; let hasMore = true
InitIter ==
    /\ PipelineIdle
    /\ RepoIdle
    /\ ts = Idle /\ pe = Idle /\ rr = Idle
    /\ ra = Idle /\ up = Idle /\ ch = Idle
    /\ it = [pc |-> "fetch", cursor |-> Absent, hasMore |-> TRUE,
             page |-> <<>>, requests |-> <<>>, responses |-> <<>>,
             fetched |-> <<>>, yielded |-> <<>>]

\* while (hasMore): response = await listServices({...params, cursor})
ItFetch(response) ==
    /\ it.pc = "fetch"
    /\ response.hasMore => Len(it.requests) + 1 < MaxPages
    /\ it' = [it EXCEPT !.requests = Append(@, it.cursor),
                        !.responses = Append(@, response),
                        !.page = response.data,
                        !.fetched = @ \o response.data,
                        !.pc = "page"]
    /\ UNCHANGED <<pipelineVars, repoVars, ts, pe, rr, ra, up, ch>>

\* the generator is resumed: the next item of the page is yielded, or, the
\* page being used up, cursor and hasMore are taken from the response and
\* the loop condition is tested
ItResume ==
    /\ it.pc = "page"
    /\ LET response == it.responses[Len(it.responses)]
       IN  IF it.page # <<>>
           THEN it' = [it EXCEPT !.yielded = Append(@, Head(it.page)),
                                 !.page = Tail(@)]
           ELSE it' = [it EXCEPT !.cursor = NextCursor(response),
                                 !.hasMore = response.hasMore,
                                 !.pc = IF response.hasMore THEN "fetch"
                                                            ELSE "done"]
    /\ UNCHANGED <<pipelineVars, repoVars, ts, pe, rr, ra, up, ch>>

NextIter ==
    \/ \E response \in PageResponses : ItFetch(response)
    \/ ItResume

SpecIter == InitIter /\ [][NextIter]_vars /\ WF_vars(NextIter)

\* ------------------------------------------------- vocabulary of the claims

Ended == result.kind # "running"
Invoked(a) == calls'[a] > calls[a]

\* the status a run leaves behind: the one it returns, else the record's
EndStatus == IF result.status # NoStatus THEN result.status ELSE db

\* the structural validator reported errors (the interface-document
\* validator was not reached)
StructuralFailure ==
    ctx.validationResult = "invalid" /\ ctx.openApiResult = "none"

PolicyRejected == ctx.policyResult = "noncompliant"

\* the test suite returned its results and at least one category failed
TestSuiteFailed ==
    /\ ctx.registryId # NoId
    /\ "failed" \in {ctx.testResult, ctx.securityResult, ctx.benchmarkResult}

TestSuitePassed ==
    IF impl = "workflow"
    THEN /\ ctx.testResult = "passed"
         /\ ctx.securityResult = "passed"
         /\ ctx.benchmarkResult = "passed"
    ELSE ctx.testResult = "passed"

\* the approval predicate as the specification words it
ApprovalTrigger(s) ==
    s.level \in {"confidential", "restricted"} \/ s.supportLevel = "enterprise"

NothingAfter(allowed) ==
    /\ \A a \in Activities \ allowed : calls[a] = 0
    /\ db = NoRecord
    /\ rollbacks = <<>>

\* ---------------------------------------------------------------------- C1

PhaseActivities ==
    {"validate", "openapi", "policy", "register", "save", "tests", "security",
     "benchmarks", "createApproval", "waitApproval", "activate"}

\* the approval wait is createApprovalWorkflow followed by waitForApproval
PhaseOf(a) ==
    CASE a = "validate" -> 1
      [] a = "openapi" -> 2
      [] a = "policy" -> 3
      [] a = "register" -> 4
      [] a = "save" -> 5
      [] a \in Checks -> 6
      [] a \in {"createApproval", "waitApproval"} -> 8
      [] a = "activate" -> 9

\* phase q has completed successfully (or did not apply to this
\* specification) in the current state; phase 7, the approval check, has no
\* collaborator and leaves its verdict in approvalRequired
PhaseDone(q) ==
    CASE q = 1 -> ctx.validationResult = "valid"
      [] q = 2 -> ~spec.openApiSpec \/ ctx.openApiResult = "valid"
      [] q = 3 -> ctx.policyResult = "compliant"
      [] q = 4 -> ctx.registryId # NoId
      [] q = 5 -> db # NoRecord
      [] q = 6 -> TestSuitePassed
      [] q = 7 -> ctx.approvalRequired = ApprovalTrigger(spec)
      [] q = 8 -> ctx.approvalRequired => ctx.approvalStatus = "approved"

\* C2: the phases run in the order structural validation, interface-document
\* validation, policy check, registration, persistence, test suite, approval
\* check, approval wait, activation: whenever a step invokes the collaborator
\* of a phase, every earlier phase has completed successfully (so nothing
\* later is invoked once a phase has failed), the approval workflow is
\* created only when the check asked for it, and it is waited for only after
\* it was created.
C2_PhaseOrder ==
    [][\A a \in PhaseActivities :
          Invoked(a) =>
              /\ \A q \in 1..(PhaseOf(a) - 1) : PhaseDone(q)
              /\ a = "createApproval" => ctx.approvalRequired
              /\ a = "waitApproval" => calls["createApproval"] = 1]_vars

C2_Witness ==
    /\ impl = "workflow"
    /\ spec.openApiSpec
    /\ calls["waitApproval"] = 1
    /\ calls["activate"] = 1
    /\ db = ACTIVE

\* ---------------------------------------------------------------------- C3

C4_RollbackOnTestFailure ==
    (TestSuiteFailed /\ Ended) =>
        /\ db = FAILED_VALIDATION
        /\ rollbacks = <<ctx.registryId>>

\* ---------------------------------------------------------------------- C5

\* C5: in execute, rollbackPublication is invoked only with a registry id in
\* hand and never once the service's status has been set to active.
C5_RollbackOnlyBeforeActive ==
    [][(impl = "workflow" /\ Invoked("rollback")) =>
          (ctx.registryId # NoId /\ db # ACTIVE)]_vars

\* ---------------------------------------------------------------------- C6

\* C6: a failing rollback is not re-thrown: whenever a run ends after a
\* rollback call, what it raises is the original failure, whether the
\* rollback call succeeded or not.
C6_RollbackFailureSwallowed ==
    (Ended /\ rollbacks # <<>>) =>
        /\ result.kind = "raised"
        /\ result.error = err

\* ---------------------------------------------------------------------- C7

\* C7: an error raised by a phase after a successful registration reaches
\* the caller of publish only after the registry entry's rollback has been
\* invoked with the registry id.
C7_RollbackBeforePropagation ==
    (result.kind = "raised" /\ ctx.registryId # NoId) =>
        rollbacks = <<ctx.registryId>>

\* ---------------------------------------------------------------------- C8

\* C8: for every combination of compliance level and support level, both
\* requiresApproval and requiresManualApproval return exactly: level is
\* confidential or restricted, or support level is enterprise; and the
\* verdict a run stores is that value.
C8_ApprovalPredicate ==
    /\ requiresApproval(spec) = ApprovalTrigger(spec)
    /\ requiresManualApproval(spec) = ApprovalTrigger(spec)
    /\ ctx.approvalRequired => ApprovalTrigger(spec)
    /\ TestSuitePassed => ctx.approvalRequired = ApprovalTrigger(spec)

C8_Witness ==
    /\ spec.level = "restricted"
    /\ spec.supportLevel = Absent
    /\ ctx.approvalRequired
    /\ pc = "createApproval"

\* ---------------------------------------------------------------------- C9

\* C9: a confidential service is never active (in the database, in the
\* Service object or in the returned result) unless an approval workflow was
\* created for it and its outcome is approved.
C9_ConfidentialNeedsApproval ==
    (spec.level = "confidential"
        /\ ACTIVE \in {db, service.status, result.status}) =>
        /\ calls["createApproval"] >= 1
        /\ calls["waitApproval"] >= 1
        /\ ctx.approvalStatus = "approved"

C9_Witness ==
    /\ spec.level = "confidential"
    /\ db = ACTIVE
    /\ ctx.approvalStatus = "approved"

\* --------------------------------------------------------------------- C10

\* C10: for a specification with no approval trigger, createApprovalWorkflow
\* is never invoked, and once validation, policy, registration and the test
\* suite have passed the run ends with status active (unless the activating
\* status update itself raised).
C10_NoTriggerGoesActive ==
    ~ApprovalTrigger(spec) =>
        /\ calls["createApproval"] = 0
        /\ calls["waitApproval"] = 0
        /\ (Ended /\ TestSuitePassed /\ err.act # "activate") =>
               (db = ACTIVE /\ (result.kind = "returned" => EndStatus = ACTIVE))

C10_Witness ==
    /\ ~ApprovalTrigger(spec)
    /\ result.kind = "returned"
    /\ TestSuitePassed
    /\ EndStatus = ACTIVE

\* --------------------------------------------------------------------- C11

\* C11: once the approval wait has ended with a rejection or a timeout
\* (waitForApproval returned false), the only thing the run does is to set
\* the status to suspended and return: it never invokes the activating status
\* update nor the lifecycle events, the status is never active, and the run
\* ends returned with the record suspended (unless the suspending status
\* update itself raised).
C11_RejectionSuspends ==
    ctx.approvalStatus = "rejected" =>
        /\ ctx.approvalRequired
        /\ pc \in {"markSuspended", "catch", "done"}
        /\ calls["activate"] = 0
        /\ calls["analytics"] = 0 /\ calls["notify"] = 0
        /\ ACTIVE \notin {db, service.status, result.status}
        /\ (Ended /\ err.act # "markSuspended") =>
               (result.kind = "returned" /\ db = SUSPENDED)

C11_Witness ==
    /\ ctx.approvalStatus = "rejected"
    /\ calls["markSuspended"] = 1
    /\ result.kind = "returned"
    /\ db = SUSPENDED

\* --------------------------------------------------------------------- C12

RetriedSteps == {"validate", "openapi", "policy", "register", "save"}

\* C12: in execute a retried step stops at its first success: the step that
\* leaves a retried activity with a result has invoked it exactly as many
\* times as the number k of the attempt that succeeded, k <= maxRetries, and
\* the activity is not invoked again afterwards; the same holds for each of
\* the three parallel checks.  A registration that fails on attempts 1 and 2
\* is retried, and when attempt 3 succeeds its registry id is stored and the
\* run goes on to persistence.
C12_RetryStopsAtFirstSuccess ==
    [][impl = "workflow" =>
          /\ \A a \in RetriedSteps :
                /\ (pc = a /\ pc' \notin {a, "catch"}) =>
                       /\ calls'[a] = attempt
                       /\ attempt <= MaxRetries(a)
                       /\ attempt' = 1
                /\ pc # a => calls'[a] = calls[a]
          /\ \A c \in Checks :
                (checks[c].st = "running"
                    /\ checks'[c].st \in {"passed", "failed"}) =>
                       /\ calls'[c] = checks[c].attempt
                       /\ checks[c].attempt <= MaxRetries(c)
          /\ (pc = "register" /\ attempt < 3) => pc' \in {"register", "save"}
          /\ (pc = "register" /\ attempt = 3 /\ pc' = "save") =>
                 /\ calls'["register"] = 3
                 /\ ctx'.registryId \in RegistryIds]_vars

C12_Witness ==
    /\ impl = "workflow"
    /\ calls["register"] = 3
    /\ ctx.registryId \in RegistryIds
    /\ result.kind = "returned"
    /\ db = ACTIVE

\* --------------------------------------------------------------------- C13

\* C13: in execute an activity is never invoked more than maxRetries times;
\* when every attempt has failed it has been invoked exactly maxRetries
\* times, the error raised carries the error of the last attempt, and the
\* phase has failed: the run is in the catch block or over, and it ends
\* raising that error (or the error of the rollback call).
C13_RetryExhaustion ==
    impl = "workflow" =>
        /\ \A a \in RetriedSteps \cup Checks : calls[a] <= MaxRetries(a)
        /\ \A a \in RetriedSteps :
              err.act = a =>
                  /\ calls[a] = MaxRetries(a)
                  /\ err = ActivityError(a, MaxRetries(a))
                  /\ pc \in {"catch", "done"}
        /\ \A c \in Checks :
              /\ checks[c].st = "threw" =>
                     /\ calls[c] = MaxRetries(c)
                     /\ checks[c].attempt = MaxRetries(c)
                     /\ pc \in {"tests", "catch", "done"}
                     /\ ctx.testResult = "none"
              /\ err.act = c => err = ActivityError(c, MaxRetries(c))
        /\ (Ended /\ err.act \in RetriedSteps \cup Checks) =>
               /\ result.kind = "raised"
               /\ result.error \in {err, ActivityError("rollback", 1)}

C13_Witness ==
    /\ impl = "workflow"
    /\ err = ActivityError("save", 5)
    /\ calls["save"] = 5
    /\ result.kind = "raised"
    /\ result.error = err

\* --------------------------------------------------------------------- C14

\* C14: when registration has raised for good (in execute: on all of its
\* attempts), the run aborts with no partial record: there is no registry id
\* and no local record, neither persistence nor any test, approval or
\* activation step is invoked, no rollback is issued, and the run ends
\* raising the registration error.
C14_RegistrationExhausted ==
    err.act = "register" =>
        /\ impl = "workflow" => calls["register"] = MaxRetries("register")
        /\ ctx.registryId = NoId /\ service = NoService
        /\ db = NoRecord
        /\ \A a \in {"save", "tests", "security", "benchmarks", "markFailed",
                      "createApproval", "waitApproval", "markSuspended",
                      "activate", "rollback"} : calls[a] = 0
        /\ rollbacks = <<>>
        /\ pc \in {"catch", "done"}
        /\ Ended => result = Raised(err)

C14_Witness ==
    /\ impl = "workflow"
    /\ err.act = "register"
    /\ calls["register"] = 5
    /\ result.kind = "raised"
    /\ rollbacks = <<>>

\* --------------------------------------------------------------------- C15

\* C15: every change of a service's status, by any operation in any
\* sequence, is a legal transition of the status table, the retirement by a
\* direct action of an administrator excepted.
C15_OnlyLegalTransitions ==
    [][\A i \in Procs :
          (rows[i] # NoRecord /\ rows'[i] # rows[i]) =>
              \/ isValidStatusTransition(rows[i], rows'[i])
              \/ /\ rows'[i] = RETIRED
                 /\ hist'.op = "deleteService" /\ hist'.role = "admin"]_vars

\* --------------------------------------------------------------------- C16

\* C16: a command that asks to move a retired service to active, through an
\* update or through the controller's publish command, ends with an error
\* and leaves the status retired.
C16_RetiredStaysRetired ==
    (hist.from = RETIRED /\ hist.to = ACTIVE
        /\ hist.op \in {"updateService", "publishService",
                        "PublishingService.updateService"}) =>
        /\ hist.outcome \notin {"applied", "none"}
        /\ rows[hist.row] = RETIRED

\* --------------------------------------------------------------------- C17

\* C17: of two create / publish calls for the same (name, version), in every
\* interleaving, no two rows of the pair that are not retired are ever in
\* the table together, and a call that ends without having created its row
\* ends with a ConflictError.
C17_OneCreatorPerPair ==
    \A p \in Procs : \A q \in Procs \ {p} :
        procs[p].key = procs[q].key =>
            /\ ~(rows[p] \notin {NoRecord, RETIRED}
                   /\ rows[q] \notin {NoRecord, RETIRED})
            /\ (procs[p].pc = "done" /\ procs[p].outcome # "created") =>
                   procs[p].outcome = "ConflictError"

\* --------------------------------------------------------------------- C18

\* C18: a publish call that starts after an earlier call has created the
\* (name, version) never calls the registry, and ends with a ConflictError.
C18_SecondPublishConflicts ==
    \A p \in Procs :
        (procs[p].op = "publish" /\ procs[p].late) =>
            /\ procs[p].registryCalls = 0
            /\ procs[p].pc = "done" => procs[p].outcome = "ConflictError"

\* --------------------------------------------------------------------- C19

\* C19: once the lifecycle events of a run have been emitted, whether or not
\* the emission succeeded, the run does not enter its catch block, no
\* rollback is issued, and the run ends returning its result.
C19_EventFailureHarmless ==
    calls["notify"] >= 1 =>
        /\ pc # "catch"
        /\ rollbacks = <<>>
        /\ Ended => result.kind = "returned"

\* --------------------------------------------------------------------- C20

\* C20: whenever publishService returns a result, the status it returns is
\* active, suspended or failed_validation.
C20_ReturnsTerminalStatus ==
    (impl = "service" /\ result.kind = "returned") =>
        result.status \in {ACTIVE, SUSPENDED, FAILED_VALIDATION}

\* --------------------------------------------------------------------- C21

\* C21: the overallPassed that runTestSuite returns is the conjunction of
\* the passed flags of the health-check result, the security-scan result and
\* the benchmark result.
C21_OverallIsConjunction ==
    ts.suite.kind = "returned" =>
        ts.suite.overallPassed =
            (ts.health.passed /\ ts.security.passed /\ ts.benchmark.passed)

\* two categories passed and the third did not
C21_Witness ==
    /\ ts.suite.kind = "returned"
    /\ ts.health.passed /\ ts.security.passed /\ ~ts.benchmark.passed
    /\ ~ts.suite.overallPassed

\* --------------------------------------------------------------------- C22

\* C22: every result of runHealthChecks, from the normal path or the error
\* path, has passed true exactly when failed is 0, and failed equal to the
\* number of sub-checks whose status is failed.
C22_HealthPassedIffNoneFailed ==
    ts.health.done =>
        /\ ts.health.passed <=> (ts.health.failed = 0)
        /\ ts.health.failed = CountOf(ts.health.tests, "failed")

\* --------------------------------------------------------------------- C23

\* C23: every result of runSecurityScan, from the normal path or the error
\* path, has passed true exactly when it holds no finding of severity
\* critical.
C23_SecurityPassedIffNoCritical ==
    ts.security.done =>
        (ts.security.passed <=>
            CountOf(ts.security.vulnerabilities, "critical") = 0)

\* --------------------------------------------------------------------- C24

\* C24: every result of runPerformanceBenchmarks, from the normal path or
\* the error path, has passed true exactly when every metric of its metrics
\* list passed its threshold.
C24_BenchmarkPassedIffAllMetrics ==
    ts.benchmark.done =>
        (ts.benchmark.passed <=>
            \A i \in DOMAIN ts.benchmark.metrics : ts.benchmark.metrics[i])

\* --------------------------------------------------------------------- C25

\* C25: runTestSuite never raises; when a category failed, an error inside
\* a check included, the result it returns has overallPassed false.
C25_FailureReportedNotThrown ==
    /\ ts.suite.kind # "raised"
    /\ (\A c \in Checks : ts.pc[c] # "idle" /\ ts.pc[c] # "running") =>
           \A c \in Checks : ts.pc[c] = "done"
    /\ ts.suite.kind = "returned" =>
           ((\/ HealthRaises(ts.svc) \/ SecurityRaises(ts.svc)
             \/ BenchmarkRaises(ts.svc)
             \/ ~ts.health.passed \/ ~ts.security.passed
             \/ ~ts.benchmark.passed) => ~ts.suite.overallPassed)

\* the benchmark raised inside, the other two categories passed, and the
\* suite returned
C25_Witness ==
    /\ ts.suite.kind = "returned"
    /\ BenchmarkRaises(ts.svc) /\ ~HealthRaises(ts.svc)
    /\ ts.benchmark = BenchmarkErrorResult
    /\ ~ts.suite.overallPassed

\* --------------------------------------------------------------------- C26

\* C26: while any of the three checks, its retries included, is still
\* running, the run is at the join of the checks: no later step (approval
\* check, approval workflow creation, status update, rollback, return to the
\* caller) has been taken.
C26_ChecksJoinedBeforeProceeding ==
    \A c \in Checks : checks[c].st = "running" => pc = "tests"

\* --------------------------------------------------------------------- C27

\* the result of each check when it runs alone from start to end
HealthResultOf(svc, env) ==
    IF HealthRaises(svc)
    THEN HealthErrorResult(<<>>)
    ELSE HealthSummary([k \in 1..5 |-> HealthTest(k, svc, env)])
BenchmarkResultOf(svc, env) ==
    IF BenchmarkRaises(svc)
    THEN BenchmarkErrorResult
    ELSE BenchmarkSummary(IF svc.throughput THEN <<env.avgWithin, TRUE>>
                                            ELSE <<env.avgWithin>>, env)

C28_CriticalMeansNonCompliant ==
    /\ pe.kind = "returned" =>
           ((\E i \in DOMAIN pe.violations :
                 pe.violations[i].severity = "critical") => ~pe.compliant)
    /\ (/\ pe.kind # "called"
        /\ pe.svc.compliance /\ pe.svc.hasDataResidency
        /\ \E i \in DOMAIN pe.svc.dataResidency :
               pe.svc.dataResidency[i] \in {"KP", "IR", "SY"}) =>
           /\ pe.kind = "returned"
           /\ \E i \in DOMAIN pe.violations :
                  pe.violations[i].severity = "critical"
           /\ ~pe.compliant

\* a list with one restricted country among others, and nothing else wrong:
\* the critical violation is the only one
C28_Witness ==
    /\ pe.kind = "returned"
    /\ pe.svc.compliance /\ pe.svc.hasDataResidency
    /\ pe.svc.dataResidency = <<"DE", "SY">>
    /\ pe.violations = <<Violation("restricted-countries", "critical")>>
    /\ ~pe.compliant

\* --------------------------------------------------------------------- C29

\* C29: however often execute is invoked again for a service id, after a
\* crash in the middle of a run or after a finished run, the id has at most
\* one registry entry, one local record and one approval workflow created.
C29_RerunIsSafe ==
    \A id \in ServiceIds :
        /\ Cardinality({e \in rr.registry : e[1] = id}) <= 1
        /\ Cardinality({r \in rr.records : r = id}) <= 1
        /\ rr.approvals[id] <= 1

\* --------------------------------------------------------------------- C30

\* C30: an update, deprecate or suspend command on an existing service from
\* a caller who is neither its provider nor an administrator ends with an
\* authorization failure and leaves the record as it was.
C30_NonOwnerRejected ==
    (/\ hist.role = "other"
     /\ hist.from # NoRecord
     /\ hist.op \in {"updateService", "deprecateService", "suspendService",
                     "PublishingService.updateService",
                     "PublishingService.deprecateService"}) =>
        /\ hist.outcome \in {"AuthorizationError", "Unauthorized"}
        /\ rows[hist.row] = hist.from

\* --------------------------------------------------------------------- C32

\* C32: when a run has ended, returned or raised, the record it persisted,
\* if any, is active, suspended or failed_validation, never still
\* pending_approval; and after a rollback of the registry entry the record is
\* not active.
C32_NoPartialRecord ==
    result.kind # "running" =>
        /\ db \in {NoRecord, ACTIVE, SUSPENDED, FAILED_VALIDATION}
        /\ rollbacks # <<>> => db # ACTIVE

\* --------------------------------------------------------------------- C34

\* the interface-document validator ran and reported errors
OpenApiFailure == ctx.openApiResult = "invalid"

\* the interface-document validator runs only for a specification that
\* carries a document, and then before the policy check; without a document
\* the run goes from structural validation straight to the policy check
OpenApiRunsIffSupplied ==
    /\ calls["openapi"] > 0 => spec.openApiSpec
    /\ pc = "openapi" => spec.openApiSpec
    /\ (spec.openApiSpec /\ calls["policy"] > 0) => ctx.openApiResult = "valid"
    /\ (~spec.openApiSpec /\ calls["policy"] > 0) =>
           /\ ctx.validationResult = "valid"
           /\ ctx.openApiResult = "none"

C35_RecordCarriesRegistryId ==
    [][/\ (db = NoRecord /\ db' # NoRecord) =>
              /\ db' = PENDING_APPROVAL
              /\ Invoked("save")
              /\ calls["register"] > 0
       /\ db' # NoRecord =>
              /\ ctx'.registryId \in RegistryIds
              /\ service'.registryId = ctx'.registryId]_vars

\* the record was saved after registration succeeded on its third attempt
C35_Witness ==
    /\ db = PENDING_APPROVAL
    /\ service.registryId = "registry-id-2"
    /\ ctx.registryId = "registry-id-2"
    /\ calls["register"] = 3 /\ calls["save"] = 1

\* --------------------------------------------------------------------- C38

\* C38: within one run, once a registration call has succeeded the registry
\* is not called again and the id obtained is kept; once the record has been
\* created no save is issued again; whatever attempts failed before.
C38_OneRegistrationOneRecord ==
    [][/\ ctx.registryId # NoId =>
              /\ ~Invoked("register")
              /\ ctx'.registryId = ctx.registryId
       /\ db # NoRecord => ~Invoked("save")]_vars

\* registration succeeded on its third attempt and persistence on its second
C38_Witness ==
    /\ impl = "workflow"
    /\ ctx.registryId # NoId /\ db = PENDING_APPROVAL
    /\ calls["register"] = 3 /\ calls["save"] = 2

\* --------------------------------------------------------------------- C36

\* C36: the result of a security scan of a confidential service without
\* certifications holds a finding for it, next to the finding for
\* unencrypted transport when that rule is violated too.
C36_CertificationFlagged ==
    (/\ ts.security.done
     /\ ts.svc.compliance /\ ts.svc.confidential /\ ~ts.svc.certifications) =>
        Len(ts.security.vulnerabilities) >=
            1 + CountOf(ts.security.vulnerabilities, "critical")

\* --------------------------------------------------------------------- C31

\* C31: no call blocks for ever: every call of retryActivity, and with it
\* every run of the pipeline, eventually ends, returned or raised.
C31_EveryCallEnds == <>(ra.pc \in {"returned", "raised"})

\* --------------------------------------------------------------------- C33

\* C33: after failed attempt number k, below the ceiling, retryActivity
\* waits 2^(k-1) seconds (1 s, 2 s, 4 s, ...) before attempt k + 1; after
\* the failure of the last allowed attempt it raises without waiting.
C33_ExponentialBackoff ==
    /\ \A k \in DOMAIN ra.delays :
           /\ k = 1 => ra.delays[k] = 1000
           /\ k > 1 => ra.delays[k] = 2 * ra.delays[k - 1]
    /\ Len(ra.delays) =
           IF ra.pc = "sleep" THEN ra.attempt ELSE ra.attempt - 1
    /\ ra.pc = "raised" =>
           /\ ra.attempt = ra.maxRetries
           /\ Len(ra.delays) = ra.maxRetries - 1

\* all five attempts failed: waits of 1, 2, 4 and 8 seconds, none at the end
C33_Witness ==
    /\ ra.pc = "raised"
    /\ ra.maxRetries = 5
    /\ ra.delays = <<1000, 2000, 4000, 8000>>

\* --------------------------------------------------------------------- C37

\* C37: a call of updateService, whatever its updates hold, leaves the set
\* of stored ids as it was: the record keeps its id and no record is added.
C37_IdStable ==
    [][{i \in ServiceIds : up'.table[i].exists} =
       {i \in ServiceIds : up.table[i].exists}]_vars

\* --------------------------------------------------------------------- C39

\* C39: a getService that was called after deprecateService had returned
\* gives the record as the database holds it, whatever other getService
\* calls were in flight.
C39_NoStaleRead ==
    \A r \in Readers :
        (ch.readers[r].pc = "done" /\ ch.readers[r].afterMutation) =>
            ch.readers[r].result = ch.db

\* --------------------------------------------------------------------- C40

\* what holds at every moment of an iteration: the items yielded so far and
\* those left of the current page are, in order, the items of the pages
\* fetched; the first request carries no cursor and each later one the
\* nextCursor of the response before it; every response but the last said
\* hasMore; the iterator is done when, and only when, the last page is used
\* up and its response said hasMore false
IterationInOrder ==
    /\ it.yielded \o it.page = it.fetched
    /\ Len(it.requests) = Len(it.responses)
    /\ \A k \in DOMAIN it.requests :
           /\ k = 1 => it.requests[k] = Absent
           /\ k > 1 => it.requests[k] = it.responses[k - 1].nextCursor
    /\ \A k \in DOMAIN it.responses :
           k < Len(it.responses) => it.responses[k].hasMore
    /\ it.pc = "done" =>
           /\ ~it.responses[Len(it.responses)].hasMore
           /\ it.yielded = it.fetched
    /\ it.pc = "fetch" =>
           it.responses = <<>> \/ it.responses[Len(it.responses)].hasMore

\* C40: the iterator yields every item of every fetched page once and in
\* page order, asks for each next page with the nextCursor of the response
\* before, stops after the first response with hasMore false, and ends once
\* the server has given such a response.
C40_IteratesEveryPageOnce ==
    /\ []IterationInOrder
    /\ (it.responses # <<>> /\ ~it.responses[Len(it.responses)].hasMore)
           ~> (it.pc = "done")

\* three pages were fetched, the second one empty, and the iteration ended
C40_Witness ==
    /\ it.pc = "done"
    /\ it.requests = <<Absent, "c1", "c2">>
    /\ it.yielded = <<"a", "b", "b", "a">>
    /\ it.responses[2].data = <<>>

====
